--------------------------- MODULE SessionsProofs ---------------------------
(***************************************************************************)
(* A family has one usable token at most, and none again once it has none, *)
(* for any number of families, tokens and requests.                        *)
(*                                                                         *)
(* A rotation keeps the number of a family's usable tokens; only an issue  *)
(* adds one.  So the argument is about who may issue: a family is Spent    *)
(* when what opened it cannot open it again, every family with tokens is   *)
(* Spent, and the one request that is about to issue a family's first      *)
(* token has spent it while the family has no tokens.                      *)
(***************************************************************************)
EXTENDS Sessions, TLAPS

Spent(f) ==
  /\ door[f] # None
  /\ door[f].way = "challenge" => ~door[f].open
  /\ door[f].way = "setup" => user.mfa

In(f, t) == Issued(t) /\ token[t].family = f

One == \A s, t \in Tokens :
  Issued(s) /\ Issued(t) /\ token[s].family = token[t].family /\ Usable(s) /\ Usable(t) => s = t

Over == \A t \in Tokens : Issued(t) /\ token[t].family \in ended => ~Usable(t)

EndedStarted == \A f \in ended : \E t \in Tokens : In(f, t)

StartedSpent == \A t \in Tokens : Issued(t) => Spent(token[t].family)

\* What a request remembers is still so.
Remembers(h) ==
  /\ handler[h].at \in {"consume", "enable", "issue", "revoke"} => handler[h].family \in Families
  /\ handler[h].at \in {"rotate", "cookie"} => handler[h].token \in Tokens /\ Issued(handler[h].token)
  /\ handler[h].at = "enable" => door[handler[h].family] # None /\ door[handler[h].family].way = "setup"
  /\ handler[h].at = "issue" => Spent(handler[h].family) /\ \A t \in Tokens : ~In(handler[h].family, t)
  /\ handler[h].at = "revoke" => \E t \in Tokens : In(handler[h].family, t)

Remembered == \A h \in Handlers : Remembers(h)

OneIssuer == \A g, h \in Handlers :
  handler[g].at = "issue" /\ handler[h].at = "issue" /\ handler[g].family = handler[h].family => g = h

SessionInv ==
  /\ TypeOK
  /\ One /\ Over /\ EndedStarted /\ StartedSpent
  /\ Remembered /\ OneIssuer

-----------------------------------------------------------------------------

LEMMA InitInv == Init => SessionInv
  <1> SUFFICES ASSUME Init PROVE SessionInv
    OBVIOUS
  <1>1. TypeOK
    BY SessionsAssumption DEF Init, TypeOK, Handler, Idle, Steps
  <1>2. \A t \in Tokens : ~Issued(t)
    BY DEF Init, Issued
  <1>3. \A h \in Handlers : handler[h].at = "idle"
    BY DEF Init, Idle
  <1> QED BY <1>1, <1>2, <1>3 DEF SessionInv, One, Over, EndedStarted, StartedSpent, Remembered, Remembers,
       OneIssuer, Init

(* The steps that only move a request on, to a step with no obligations or *)
(* to one whose obligations hold.                                          *)
LEMMA Moves ==
  ASSUME SessionInv, UNCHANGED <<user, door, token, ended>>,
         NEW h \in Handlers, NEW r \in Handler, handler' = [handler EXCEPT ![h] = r],
         r.at # "issue",
         r.at \in {"consume", "enable", "revoke"} => r.family \in Families,
         r.at \in {"rotate", "cookie"} => r.token \in Tokens /\ Issued(r.token),
         r.at = "enable" => door[r.family] # None /\ door[r.family].way = "setup",
         r.at = "revoke" => \E t \in Tokens : In(r.family, t)
  PROVE  SessionInv'
  <1>1. TypeOK'
    BY DEF SessionInv, TypeOK
  <1>2. One' /\ Over' /\ EndedStarted' /\ StartedSpent'
    BY DEF SessionInv, One, Over, EndedStarted, StartedSpent, In, Spent, Issued, Usable
  <1>3. ASSUME NEW g \in Handlers PROVE Remembers(g)'
    <2>1. CASE g = h
      BY <2>1 DEF SessionInv, TypeOK, Remembers, In, Spent, Issued
    <2>2. CASE g # h
      <3>1. handler'[g] = handler[g] /\ Remembers(g)
        BY <2>2 DEF SessionInv, TypeOK, Remembered
      <3> QED BY <3>1 DEF Remembers, In, Spent, Issued
    <2> QED BY <2>1, <2>2
  <1>4. OneIssuer'
    BY DEF SessionInv, TypeOK, OneIssuer
  <1> QED BY <1>1, <1>2, <1>3, <1>4 DEF SessionInv, Remembered

(* The same for the steps that change the rows as well: what a request     *)
(* remembers survives when issued rows stay issued in their family, spent  *)
(* families stay spent, and no family about to get its first token got it. *)
LEMMA StillRemembers ==
  ASSUME SessionInv, NEW g \in Handlers, handler'[g] = handler[g],
         \A t \in Tokens : Issued(t) => Issued(t)' /\ token'[t].family = token[t].family,
         \A f \in Families : Spent(f) => Spent(f)',
         \A f \in Families : door[f] # None => door'[f] # None /\ door'[f].way = door[f].way,
         handler[g].at = "issue" => \A t \in Tokens : ~In(handler[g].family, t)'
  PROVE  Remembers(g)'
  <1>1. Remembers(g)
    BY DEF SessionInv, Remembered
  <1>2. handler'[g] = handler[g]
    OBVIOUS
  <1>3. \A f \in Families, t \in Tokens : In(f, t) => In(f, t)'
    BY DEF In
  <1>4. handler[g].at \in {"rotate", "cookie"} => handler[g].token \in Tokens /\ Issued(handler[g].token)'
    BY <1>1 DEF Remembers
  <1>5. handler[g].at = "issue" => Spent(handler[g].family)'
    BY <1>1 DEF Remembers
  <1> QED BY <1>1, <1>2, <1>3, <1>4, <1>5 DEF Remembers, Issued, In, Spent

-----------------------------------------------------------------------------
LEMMA LoginInv == ASSUME SessionInv, NEW h \in Handlers, NEW way \in Ways, Login(h, way) PROVE SessionInv'
  <1> PICK r \in Handler : r = [at |-> "open", way |-> way, family |-> None, token |-> None]
    BY DEF Handler, Steps
  <1> QED BY Moves DEF Login, Goes

LEMMA VerifyInv == ASSUME SessionInv, NEW h \in Handlers, NEW f \in Families, Verify(h, f) PROVE SessionInv'
  <1> PICK r \in Handler : r = [at |-> "consume", way |-> None, family |-> f, token |-> None]
    BY DEF Handler, Steps
  <1> QED BY Moves DEF Verify, Goes

LEMMA ActivateInv == ASSUME SessionInv, NEW h \in Handlers, NEW f \in Families, Activate(h, f) PROVE SessionInv'
  <1> PICK r \in Handler : r = [at |-> "enable", way |-> None, family |-> f, token |-> None]
    BY DEF Handler, Steps
  <1> QED BY Moves DEF Activate, Goes, Enrollable, Holds

LEMMA RefreshInv == ASSUME SessionInv, NEW h \in Handlers, NEW t \in Tokens, Refresh(h, t) PROVE SessionInv'
  <1> PICK r \in Handler : r = [at |-> "rotate", way |-> None, family |-> None, token |-> t]
    BY DEF Handler, Steps
  <1> QED BY Moves DEF Refresh, Goes

LEMMA DetectReuseInv == ASSUME SessionInv, NEW h \in Handlers, DetectReuse(h) PROVE SessionInv'
  <1>1. PICK t \in Tokens : t = handler[h].token /\ Issued(t) /\ token[t].family \in Families
    BY DEF DetectReuse, SessionInv, Remembered, Remembers, TypeOK, Issued, Row
  <1>2. PICK r \in Handler : r = [at |-> "revoke", way |-> None, family |-> token[t].family, token |-> None]
    BY <1>1 DEF Handler, Steps
  <1>3. In(token[t].family, t)
    BY <1>1 DEF In
  <1> QED BY Moves, <1>1, <1>2, <1>3 DEF DetectReuse, Goes

LEMMA StopInv == ASSUME SessionInv, NEW h \in Handlers, Stop(h) PROVE SessionInv'
  <1> PICK r \in Handler : r = Idle
    BY DEF Handler, Steps, Idle
  <1> QED BY Moves DEF Stop, Answers, Idle

-----------------------------------------------------------------------------
(* A family opens: no request and no token belongs to it yet.              *)
LEMMA OpensFacts ==
  ASSUME SessionInv, NEW h \in Handlers, NEW way \in Ways, NEW f \in Families, Opens(h, way, f)
  PROVE  /\ door' \in [Families -> Door \cup {None}]
         /\ handler' \in [Handlers -> Handler]
         /\ \A g \in Families : Spent(g) => Spent(g)'
         /\ \A g \in Families : door[g] # None => door'[g] # None /\ door'[g].way = door[g].way
         /\ \A g \in Handlers \ {h} : handler'[g] = handler[g]
         /\ Remembers(h)'
         /\ handler'[h].at = "idle"
         /\ way = "direct" => Spent(f)'
         /\ \A t \in Tokens : ~In(f, t)
         /\ \A g \in Handlers : handler[g].at = "issue" => handler[g].family # f
         /\ f \notin ended
  <1>1. PICK d \in Door : d = [way |-> way, open |-> way # "direct", epoch |-> user.epoch]
    <2>1. user.epoch \in 0..MaxResets
      BY DEF SessionInv, TypeOK
    <2>2. (way # "direct") \in BOOLEAN
      OBVIOUS
    <2> QED BY <2>1, <2>2 DEF Door
  <1>2. door' = [door EXCEPT ![f] = d] /\ door \in [Families -> Door \cup {None}] /\ d # None /\ door[f] = None
    BY <1>1, SessionsAssumption DEF Opens, SessionInv, TypeOK
  <1>3. door' \in [Families -> Door \cup {None}]
    BY <1>2
  <1>4. Idle \in Handler
    BY DEF Handler, Steps, Idle
  <1>5. handler' \in [Handlers -> Handler] /\ handler'[h] = Idle /\ \A g \in Handlers \ {h} : handler'[g] = handler[g]
    BY <1>4 DEF Opens, Answers, SessionInv, TypeOK
  <1>6. Remembers(h)' /\ handler'[h].at = "idle"
    BY <1>5 DEF Idle, Remembers
  <1>7. user' = user
    BY DEF Opens
  <1>8. \A g \in Families : Spent(g) => Spent(g)'
    BY <1>2, <1>7 DEF Spent
  <1>9. way = "direct" => Spent(f)'
    BY <1>1, <1>2 DEF Spent
  <1>10. \A t \in Tokens : ~In(f, t)
    BY <1>2 DEF SessionInv, StartedSpent, In, Spent
  <1>11. \A g \in Handlers : handler[g].at = "issue" => handler[g].family # f
    BY <1>2 DEF SessionInv, Remembered, Remembers, Spent
  <1>12. f \notin ended
    BY <1>10 DEF SessionInv, EndedStarted
  <1>13. \A g \in Families : door[g] # None => door'[g] # None /\ door'[g].way = door[g].way
    BY <1>2
  <1> QED BY <1>3, <1>5, <1>6, <1>8, <1>9, <1>10, <1>11, <1>12, <1>13

LEMMA IssueLaterInv ==
  ASSUME SessionInv, NEW h \in Handlers, NEW way \in Ways, NEW f \in Families, Opens(h, way, f), UNCHANGED token
  PROVE  SessionInv'
  <1>1. UNCHANGED <<user, token, ended>>
    BY DEF Opens
  <1>2. TypeOK'
    BY <1>1, OpensFacts DEF SessionInv, TypeOK
  <1>3. One' /\ Over' /\ EndedStarted'
    BY <1>1 DEF SessionInv, One, Over, EndedStarted, In, Issued, Usable
  <1>4. StartedSpent'
    <2>1. \A t \in Tokens : Issued(t) => token[t].family \in Families
      BY DEF SessionInv, TypeOK, Issued, Row
    <2>2. \A g \in Families : Spent(g) => Spent(g)'
      BY OpensFacts
    <2> QED BY <1>1, <2>1, <2>2 DEF SessionInv, StartedSpent, Issued
  <1>5. ASSUME NEW g \in Handlers, g # h PROVE Remembers(g)'
    <2>1. handler'[g] = handler[g]
      BY <1>5, OpensFacts
    <2>2. handler[g].at = "issue" => \A t \in Tokens : ~In(handler[g].family, t)'
      BY <1>1, <2>1 DEF SessionInv, Remembered, Remembers, In, Issued
    <2>3. \A t \in Tokens : Issued(t) => Issued(t)' /\ token'[t].family = token[t].family
      BY <1>1 DEF Issued
    <2> QED BY <2>1, <2>2, <2>3, OpensFacts, StillRemembers
  <1>6. Remembered'
    BY <1>5, OpensFacts DEF Remembered
  <1>7. OneIssuer'
    <2>1. \A g \in Handlers : handler'[g].at = "issue" => handler'[g] = handler[g]
      BY OpensFacts
    <2> QED BY <2>1 DEF SessionInv, OneIssuer
  <1> QED BY <1>2, <1>3, <1>4, <1>6, <1>7 DEF SessionInv

-----------------------------------------------------------------------------
(* A first token of a family that has none and is not over.                *)
LEMMA FirstToken ==
  ASSUME SessionInv, NEW f \in Families, NEW t \in Tokens, ~Issued(t),
         token' = [token EXCEPT ![t] = FreshRow(f)], UNCHANGED ended,
         \A s \in Tokens : ~In(f, s), f \notin ended
  PROVE  /\ token' \in [Tokens -> Row \cup {None}]
         /\ One' /\ Over' /\ EndedStarted'
         /\ \A s \in Tokens : Issued(s) => Issued(s)' /\ token'[s].family = token[s].family
         /\ \A s \in Tokens : Issued(s)' => (Issued(s) /\ token'[s] = token[s]) \/ token'[s].family = f
         /\ \A g \in Families \ {f}, s \in Tokens : ~In(g, s) => ~(Issued(s)' /\ token'[s].family = g)
  <1>1. PICK r \in Row : r = FreshRow(f)
    BY DEF Row, FreshRow
  <1>2. r.family = f /\ r # None /\ token' = [token EXCEPT ![t] = r] /\ token \in [Tokens -> Row \cup {None}]
    BY <1>1, SessionsAssumption DEF FreshRow, SessionInv, TypeOK
  <1>3. token' \in [Tokens -> Row \cup {None}] /\ token'[t] = r /\ \A s \in Tokens \ {t} : token'[s] = token[s]
    BY <1>2
  <1>4. One'
    BY <1>2, <1>3 DEF SessionInv, One, In, Issued, Usable
  <1>5. Over'
    BY <1>2, <1>3 DEF SessionInv, Over, Issued, Usable
  <1>6. EndedStarted'
    BY <1>2, <1>3 DEF SessionInv, EndedStarted, In, Issued
  <1>7. \A s \in Tokens : Issued(s) => Issued(s)' /\ token'[s].family = token[s].family
    BY <1>2, <1>3 DEF Issued
  <1>8. \A s \in Tokens : Issued(s)' => (Issued(s) /\ token'[s] = token[s]) \/ token'[s].family = f
    BY <1>2, <1>3 DEF Issued
  <1>9. \A g \in Families \ {f}, s \in Tokens : ~In(g, s) => ~(Issued(s)' /\ token'[s].family = g)
    BY <1>2, <1>3 DEF In, Issued
  <1> QED BY <1>3, <1>4, <1>5, <1>6, <1>7, <1>8, <1>9

LEMMA IssueDirectlyInv == ASSUME SessionInv, NEW h \in Handlers, IssueDirectly(h) PROVE SessionInv'
  <1>1. PICK f \in Families, t \in Tokens :
          Opens(h, "direct", f) /\ ~Issued(t) /\ token' = [token EXCEPT ![t] = FreshRow(f)]
    BY DEF IssueDirectly
  <1> PICK way \in Ways : way = "direct"
    BY DEF Ways
  <1>2. UNCHANGED <<user, ended>>
    BY <1>1 DEF Opens
  <1>3. (\A s \in Tokens : ~In(f, s)) /\ f \notin ended /\ Spent(f)'
    BY <1>1, OpensFacts
  <1>4. TypeOK'
    BY <1>1, <1>2, <1>3, OpensFacts, FirstToken DEF SessionInv, TypeOK
  <1>5. One' /\ Over' /\ EndedStarted'
    BY <1>1, <1>2, <1>3, FirstToken
  <1>6. StartedSpent'
    <2> SUFFICES ASSUME NEW s \in Tokens, Issued(s)' PROVE Spent(token[s].family)'
      BY DEF StartedSpent
    <2>1. CASE token'[s].family = f
      BY <2>1, <1>3 DEF Spent
    <2>2. CASE Issued(s) /\ token'[s] = token[s]
      <3>1. Spent(token[s].family) /\ token[s].family \in Families
        BY <2>2 DEF SessionInv, StartedSpent, TypeOK, Issued, Row
      <3>2. Spent(token[s].family) => door'[token[s].family] # None
                 /\ (door'[token[s].family].way = "challenge" => ~door'[token[s].family].open)
                 /\ (door'[token[s].family].way = "setup" => user'.mfa)
        BY <1>1, <3>1, OpensFacts DEF Spent
      <3> QED BY <2>2, <3>1, <3>2 DEF Spent
    <2> QED BY <1>1, <1>2, <1>3, <2>1, <2>2, FirstToken
  <1>7. ASSUME NEW g \in Handlers, g # h PROVE Remembers(g)'
    <2>1. handler'[g] = handler[g]
      BY <1>1, <1>7, OpensFacts
    <2>2. ASSUME handler[g].at = "issue", NEW s \in Tokens PROVE ~In(handler[g].family, s)'
      <3>1. handler[g].family \in Families \ {f} /\ ~In(handler[g].family, s)
        BY <1>1, <2>2, OpensFacts DEF SessionInv, Remembered, Remembers
      <3>2. ~(Issued(s)' /\ token'[s].family = handler[g].family)
        BY <1>1, <1>2, <1>3, <3>1, FirstToken
      <3> QED BY <2>1, <3>2 DEF In
    <2>3. \A s \in Tokens : Issued(s) => Issued(s)' /\ token'[s].family = token[s].family
      BY <1>1, <1>2, <1>3, FirstToken
    <2> QED BY <1>1, <2>1, <2>2, <2>3, OpensFacts, StillRemembers
  <1>8. Remembered'
    BY <1>1, <1>7, OpensFacts DEF Remembered
  <1>9. OneIssuer'
    <2>1. \A g \in Handlers : handler'[g].at = "issue" => handler'[g] = handler[g]
      BY <1>1, OpensFacts
    <2> QED BY <2>1 DEF SessionInv, OneIssuer
  <1> QED BY <1>4, <1>5, <1>6, <1>8, <1>9 DEF SessionInv

LEMMA IssueInv == ASSUME SessionInv, NEW h \in Handlers, Issue(h) PROVE SessionInv'
  <1>1. PICK t \in Tokens : /\ handler[h].at = "issue" /\ ~Issued(t)
                            /\ token' = [token EXCEPT ![t] = FreshRow(handler[h].family)]
    BY DEF Issue
  <1>2. PICK f \in Families : f = handler[h].family
    BY <1>1 DEF SessionInv, Remembered, Remembers
  <1>3. UNCHANGED <<user, door, ended>> /\ token' = [token EXCEPT ![t] = FreshRow(f)]
    BY <1>1, <1>2 DEF Issue
  <1>4. Spent(f) /\ (\A s \in Tokens : ~In(f, s)) /\ f \notin ended
    BY <1>1, <1>2 DEF SessionInv, Remembered, Remembers, EndedStarted
  <1>5. PICK idle \in Handler : idle = Idle
    BY DEF Idle, Handler, Steps
  <1>6. /\ handler' \in [Handlers -> Handler] /\ handler'[h] = Idle
        /\ \A g \in Handlers \ {h} : handler'[g] = handler[g]
    BY <1>5 DEF Issue, Answers, SessionInv, TypeOK
  <1>7. TypeOK'
    BY <1>1, <1>3, <1>4, <1>6, FirstToken DEF SessionInv, TypeOK
  <1>8. One' /\ Over' /\ EndedStarted'
    BY <1>1, <1>3, <1>4, FirstToken
  <1>9. StartedSpent'
    <2> SUFFICES ASSUME NEW s \in Tokens, Issued(s)' PROVE Spent(token[s].family)'
      BY DEF StartedSpent
    <2>1. CASE token'[s].family = f
      BY <2>1, <1>3, <1>4 DEF Spent
    <2>2. CASE Issued(s) /\ token'[s] = token[s]
      BY <2>2, <1>3 DEF SessionInv, StartedSpent, Spent
    <2> QED BY <1>1, <1>3, <1>4, <2>1, <2>2, FirstToken
  <1>10. ASSUME NEW g \in Handlers, g # h PROVE Remembers(g)'
    <2>1. handler'[g] = handler[g]
      BY <1>10, <1>6
    <2>2. ASSUME handler[g].at = "issue", NEW s \in Tokens PROVE ~In(handler[g].family, s)'
      <3>1. handler[g].family \in Families \ {f} /\ ~In(handler[g].family, s)
        BY <1>1, <1>2, <1>10, <2>2 DEF SessionInv, Remembered, Remembers, OneIssuer
      <3>2. ~(Issued(s)' /\ token'[s].family = handler[g].family)
        BY <1>1, <1>3, <1>4, <3>1, FirstToken
      <3> QED BY <2>1, <3>2 DEF In
    <2>3. \A s \in Tokens : Issued(s) => Issued(s)' /\ token'[s].family = token[s].family
      BY <1>1, <1>3, <1>4, FirstToken
    <2>4. \A e \in Families : Spent(e) => Spent(e)'
      BY <1>3 DEF Spent
    <2> QED BY <1>3, <2>1, <2>2, <2>3, <2>4, StillRemembers
  <1>11. Remembers(h)' /\ handler'[h].at = "idle"
    BY <1>6 DEF Idle, Remembers
  <1>12. OneIssuer'
    <2>1. \A g \in Handlers : handler'[g].at = "issue" => handler'[g] = handler[g]
      BY <1>6, <1>11
    <2> QED BY <2>1 DEF SessionInv, OneIssuer
  <1> QED BY <1>7, <1>8, <1>9, <1>10, <1>11, <1>12 DEF SessionInv, Remembered

-----------------------------------------------------------------------------
(* A request spends a family that has no tokens and becomes its issuer.    *)
LEMMA Spends ==
  ASSUME SessionInv, NEW h \in Handlers, NEW f \in Families, ~Spent(f), UNCHANGED <<token, ended>>,
         handler' = [handler EXCEPT ![h] = [at |-> "issue", way |-> None, family |-> f, token |-> None]],
         TypeOK', Spent(f)',
         \A g \in Families : Spent(g) => Spent(g)',
         \A g \in Families : door[g] # None => door'[g] # None /\ door'[g].way = door[g].way
  PROVE  SessionInv'
  <1>1. \A s \in Tokens : ~In(f, s)
    BY DEF SessionInv, StartedSpent, In
  <1>2. \A g \in Handlers : handler[g].at = "issue" => handler[g].family # f
    BY DEF SessionInv, Remembered, Remembers
  <1>3. PICK r \in Handler : r = [at |-> "issue", way |-> None, family |-> f, token |-> None]
    BY DEF Handler, Steps
  <1>4. handler'[h] = r /\ \A g \in Handlers \ {h} : handler'[g] = handler[g]
    BY <1>3 DEF SessionInv, TypeOK
  <1>5. One' /\ Over' /\ EndedStarted'
    BY DEF SessionInv, One, Over, EndedStarted, In, Issued, Usable
  <1>6. StartedSpent'
    <2> SUFFICES ASSUME NEW s \in Tokens, Issued(s)' PROVE Spent(token[s].family)'
      BY DEF StartedSpent
    <2>1. Issued(s) /\ token'[s] = token[s] /\ token[s].family \in Families /\ Spent(token[s].family)
      BY DEF SessionInv, StartedSpent, TypeOK, Issued, Row
    <2> QED BY <2>1 DEF Spent
  <1>7. Remembers(h)'
    BY <1>1, <1>3, <1>4 DEF Remembers, In, Issued, Spent
  <1>8. ASSUME NEW g \in Handlers, g # h PROVE Remembers(g)'
    <2>1. handler'[g] = handler[g]
      BY <1>4, <1>8
    <2>2. handler[g].at = "issue" => \A t \in Tokens : ~In(handler[g].family, t)'
      BY <2>1 DEF SessionInv, Remembered, Remembers, In, Issued
    <2>3. \A t \in Tokens : Issued(t) => Issued(t)' /\ token'[t].family = token[t].family
      BY DEF Issued
    <2> QED BY <2>1, <2>2, <2>3, StillRemembers
  <1>9. OneIssuer'
    BY <1>2, <1>3, <1>4 DEF SessionInv, OneIssuer
  <1> QED BY <1>5, <1>6, <1>7, <1>8, <1>9 DEF SessionInv, Remembered

LEMMA ConsumeInv == ASSUME SessionInv, NEW h \in Handlers, Consume(h) PROVE SessionInv'
  <1>1. PICK f \in Families : f = handler[h].family
    BY DEF Consume, SessionInv, Remembered, Remembers
  <1>2. /\ door[f] # None /\ door[f].way = "challenge" /\ door[f].open
        /\ door' = [door EXCEPT ![f].open = FALSE]
        /\ handler' = [handler EXCEPT ![h] = [at |-> "issue", way |-> None, family |-> f, token |-> None]]
        /\ UNCHANGED <<user, token, ended>>
    BY <1>1 DEF Consume, Holds, Goes
  <1>3. PICK r \in Handler : r = [at |-> "issue", way |-> None, family |-> f, token |-> None]
    BY DEF Handler, Steps
  <1>4. PICK d \in Door : d = [door[f] EXCEPT !.open = FALSE]
    BY <1>2 DEF Door, SessionInv, TypeOK
  <1>5. d # None /\ d.way = door[f].way /\ ~d.open /\ door' = [door EXCEPT ![f] = d]
    BY <1>2, <1>4, SessionsAssumption DEF Door, SessionInv, TypeOK
  <1>6. TypeOK'
    BY <1>2, <1>3, <1>5 DEF SessionInv, TypeOK
  <1>7. door' \in [Families -> Door \cup {None}] /\ door'[f] = d /\ \A g \in Families \ {f} : door'[g] = door[g]
    BY <1>5 DEF SessionInv, TypeOK
  <1>8. ~Spent(f) /\ Spent(f)'
    BY <1>2, <1>5, <1>7 DEF Spent
  <1>9. \A g \in Families : Spent(g) => Spent(g)'
    BY <1>2, <1>7, <1>8 DEF Spent
  <1>10. \A g \in Families : door[g] # None => door'[g] # None /\ door'[g].way = door[g].way
    BY <1>5, <1>7
  <1> QED BY <1>2, <1>6, <1>8, <1>9, <1>10, Spends

LEMMA EnableInv == ASSUME SessionInv, NEW h \in Handlers, Enable(h) PROVE SessionInv'
  <1>1. PICK f \in Families : f = handler[h].family
    BY DEF Enable, SessionInv, Remembered, Remembers
  <1>2. /\ door[f] # None /\ door[f].way = "setup"
        /\ ~user.mfa /\ user' = [user EXCEPT !.mfa = TRUE]
        /\ handler' = [handler EXCEPT ![h] = [at |-> "issue", way |-> None, family |-> f, token |-> None]]
        /\ UNCHANGED <<door, token, ended>>
    BY <1>1 DEF Enable, Goes, SessionInv, Remembered, Remembers
  <1>3. PICK r \in Handler : r = [at |-> "issue", way |-> None, family |-> f, token |-> None]
    BY DEF Handler, Steps
  <1>4. user'.mfa /\ TypeOK'
    BY <1>2, <1>3 DEF SessionInv, TypeOK
  <1>5. ~Spent(f) /\ Spent(f)' /\ \A g \in Families : Spent(g) => Spent(g)'
    BY <1>2, <1>4 DEF Spent
  <1> QED BY <1>2, <1>4, <1>5, Spends

-----------------------------------------------------------------------------
(* Rows are revoked or expire, families are over, requests are answered or *)
(* move on, and nothing is issued.                                         *)
LEMMA Lowers ==
  ASSUME SessionInv, TypeOK',
         \A t \in Tokens : Issued(t)' <=> Issued(t),
         \A t \in Tokens : Issued(t) => token'[t].family = token[t].family /\ (Usable(t)' => Usable(t)),
         \A t \in Tokens : Issued(t) /\ token[t].family \in ended' \ ended => ~Usable(t)',
         \A f \in ended' \ ended : \E t \in Tokens : In(f, t),
         \A f \in Families : Spent(f) => Spent(f)',
         \A f \in Families : door[f] # None => door'[f] # None /\ door'[f].way = door[f].way,
         \A g \in Handlers : handler'[g] # handler[g] => handler'[g].at # "issue" /\ Remembers(g)'
  PROVE  SessionInv'
  <1>1. \A t \in Tokens : Issued(t) => token[t].family \in Families
    BY DEF SessionInv, TypeOK, Issued, Row
  <1>2. One'
    BY DEF SessionInv, One
  <1>3. Over'
    BY DEF SessionInv, Over
  <1>4. EndedStarted'
    BY DEF SessionInv, EndedStarted, In
  <1>5. StartedSpent'
    <2> SUFFICES ASSUME NEW s \in Tokens, Issued(s)' PROVE Spent(token[s].family)'
      BY DEF StartedSpent
    <2>1. PICK f \in Families : f = token[s].family /\ f = token'[s].family
      BY <1>1
    <2>2. Spent(f)'
      BY <2>1 DEF SessionInv, StartedSpent
    <2> QED BY <2>1, <2>2 DEF Spent
  <1>6. ASSUME NEW g \in Handlers PROVE Remembers(g)'
    <2>1. CASE handler'[g] = handler[g]
      <3>1. handler[g].at = "issue" => \A t \in Tokens : ~In(handler[g].family, t)'
        BY <2>1 DEF SessionInv, Remembered, Remembers, In
      <3> QED BY <2>1, <3>1, StillRemembers
    <2> QED BY <2>1
  <1>7. OneIssuer'
    BY DEF SessionInv, OneIssuer
  <1> QED BY <1>2, <1>3, <1>4, <1>5, <1>6, <1>7 DEF SessionInv, Remembered

\* A row that is revoked or expires is still a row of its family.
LEMMA LoweredRow ==
  ASSUME NEW r \in Row
  PROVE  /\ [r EXCEPT !.revoked = TRUE] \in Row /\ [r EXCEPT !.expired = TRUE] \in Row
         /\ [r EXCEPT !.revoked = TRUE].family = r.family /\ [r EXCEPT !.expired = TRUE].family = r.family
         /\ [r EXCEPT !.revoked = TRUE].revoked /\ [r EXCEPT !.expired = TRUE].expired
         /\ [r EXCEPT !.revoked = TRUE] # None /\ [r EXCEPT !.expired = TRUE] # None
  BY SessionsAssumption DEF Row

LEMMA RevokeInv ==
  ASSUME SessionInv, NEW h \in Handlers, NEW f \in Families, NEW s \in Tokens, In(f, s), Revoke(f),
         UNCHANGED <<user, door>>, NEW r \in Handler, handler' = [handler EXCEPT ![h] = r],
         r.at \in {"idle", "cookie"}, r.at = "cookie" => r.token \in Tokens /\ Issued(r.token)
  PROVE  SessionInv'
  <1>1. \A t \in Tokens : Issued(t) => token[t] \in Row
    BY DEF SessionInv, TypeOK, Issued
  <1>2. token' \in [Tokens -> Row \cup {None}]
    BY <1>1, LoweredRow DEF Revoke, Of, SessionInv, TypeOK
  <1>3. \A t \in Tokens : Issued(t)' <=> Issued(t)
    BY <1>1, LoweredRow DEF Revoke, Of, Issued
  <1>4. \A t \in Tokens : Issued(t) => token'[t].family = token[t].family /\ (Usable(t)' => Usable(t))
    BY <1>1, LoweredRow DEF Revoke, Of, Usable
  <1>5. \A t \in Tokens : Issued(t) /\ token[t].family \in ended' \ ended => ~Usable(t)'
    BY <1>1, LoweredRow DEF Revoke, Of, Usable, In
  <1>6. \A g \in ended' \ ended : \E t \in Tokens : In(g, t)
    BY DEF Revoke
  <1>7. TypeOK'
    BY <1>2 DEF Revoke, SessionInv, TypeOK
  <1>8. \A g \in Families : (Spent(g) => Spent(g)') /\ (door[g] # None => door'[g] # None /\ door'[g].way = door[g].way)
    BY DEF Spent
  <1>9. ASSUME NEW g \in Handlers, handler'[g] # handler[g] PROVE handler'[g].at # "issue" /\ Remembers(g)'
    <2>1. handler'[g] = r
      BY <1>9 DEF SessionInv, TypeOK
    <2> QED BY <2>1, <1>3 DEF Remembers
  <1> QED BY <1>3, <1>4, <1>5, <1>6, <1>7, <1>8, <1>9, Lowers

LEMMA RevokeReusedInv == ASSUME SessionInv, NEW h \in Handlers, RevokeReused(h) PROVE SessionInv'
  <1>1. PICK f \in Families : f = handler[h].family
    BY DEF RevokeReused, SessionInv, Remembered, Remembers
  <1>2. PICK s \in Tokens : In(f, s)
    BY <1>1 DEF RevokeReused, SessionInv, Remembered, Remembers
  <1>3. PICK r \in Handler : r = Idle
    BY DEF Idle, Handler, Steps
  <1>4. Revoke(f) /\ UNCHANGED <<user, door>> /\ handler' = [handler EXCEPT ![h] = r] /\ r.at = "idle"
    BY <1>1, <1>3 DEF RevokeReused, Revoke, Of, Answers, Idle
  <1> QED BY <1>1, <1>2, <1>3, <1>4, RevokeInv

LEMMA LogoutAccessInv ==
  ASSUME SessionInv, NEW h \in Handlers, NEW f \in Families, NEW t \in Tokens \cup {None}, LogoutAccess(h, f, t)
  PROVE  SessionInv'
  <1>1. PICK s \in Tokens : In(f, s)
    BY DEF LogoutAccess, Of, In
  <1>2. CASE t = None
    <2>1. PICK r \in Handler : r = Idle
      BY DEF Idle, Handler, Steps
    <2>2. Revoke(f) /\ UNCHANGED <<user, door>> /\ handler' = [handler EXCEPT ![h] = r] /\ r.at = "idle"
      BY <1>2, <2>1 DEF LogoutAccess, Answers, Idle
    <2> QED BY <1>1, <2>1, <2>2, RevokeInv
  <1>3. CASE t # None
    <2>1. PICK r \in Handler : r = [at |-> "cookie", way |-> None, family |-> None, token |-> t]
      BY DEF Handler, Steps
    <2>2. /\ Revoke(f) /\ UNCHANGED <<user, door>> /\ handler' = [handler EXCEPT ![h] = r]
          /\ r.at = "cookie" /\ r.token \in Tokens /\ Issued(r.token)
      BY <1>3, <2>1 DEF LogoutAccess, Goes
    <2> QED BY <1>1, <2>1, <2>2, RevokeInv
  <1> QED BY <1>2, <1>3

LEMMA LogoutCookieInv == ASSUME SessionInv, NEW h \in Handlers, NEW t \in Tokens, LogoutCookie(h, t) PROVE SessionInv'
  <1>1. Issued(t)
    BY DEF LogoutCookie, SessionInv, Remembered, Remembers
  <1>2. PICK f \in Families : f = token[t].family
    BY <1>1 DEF SessionInv, TypeOK, Issued, Row
  <1>3. In(f, t)
    BY <1>1, <1>2 DEF In
  <1>4. PICK r \in Handler : r = Idle
    BY DEF Idle, Handler, Steps
  <1>5. Revoke(f) /\ UNCHANGED <<user, door>> /\ handler' = [handler EXCEPT ![h] = r] /\ r.at = "idle"
    BY <1>2, <1>4 DEF LogoutCookie, Revoke, Of, Answers, Idle
  <1> QED BY <1>2, <1>3, <1>4, <1>5, RevokeInv

LEMMA ChangeAccessInv == ASSUME SessionInv, NEW reset \in BOOLEAN, ChangeAccess(reset) PROVE SessionInv'
  <1>1. \A t \in Tokens : Issued(t) => token[t] \in Row
    BY DEF SessionInv, TypeOK, Issued
  <1>2. token' \in [Tokens -> Row \cup {None}]
    BY <1>1, LoweredRow DEF ChangeAccess
  <1>3. \A t \in Tokens : Issued(t)' <=> Issued(t)
    BY <1>1, LoweredRow DEF ChangeAccess, Issued
  <1>4. \A t \in Tokens : Issued(t) => token'[t].family = token[t].family /\ ~Usable(t)'
    BY <1>1, LoweredRow DEF ChangeAccess, Usable
  <1>5. \A f \in ended' \ ended : \E t \in Tokens : In(f, t)
    BY DEF ChangeAccess, Started, Of, In
  <1>6. \A f \in Families : door[f] # None => door[f] \in Door
    BY DEF SessionInv, TypeOK
  <1>7. \A d \in Door : /\ [d EXCEPT !.open = FALSE] \in Door /\ [d EXCEPT !.open = FALSE] # None
                        /\ [d EXCEPT !.open = FALSE].way = d.way /\ ~[d EXCEPT !.open = FALSE].open
    BY SessionsAssumption DEF Door
  <1>8. door' \in [Families -> Door \cup {None}]
    BY <1>6, <1>7 DEF ChangeAccess, Holds, SessionInv, TypeOK
  <1>9. \A f \in Families : door[f] # None => /\ door'[f] # None /\ door'[f].way = door[f].way
                                              /\ door'[f].open => door[f].open
    BY <1>6, <1>7 DEF ChangeAccess, Holds
  <1>10. user'.mfa = user.mfa /\ user' \in [epoch : 0..MaxResets, mfa : BOOLEAN]
    <2>1. user \in [epoch : 0..MaxResets, mfa : BOOLEAN]
      BY DEF SessionInv, TypeOK
    <2>2. CASE reset
      <3>1. user.epoch + 1 \in 0..MaxResets
        BY <2>1, <2>2, SessionsAssumption DEF ChangeAccess
      <3>2. user' = [user EXCEPT !.epoch = user.epoch + 1]
        BY <2>2 DEF ChangeAccess
      <3> QED BY <2>1, <3>1, <3>2
    <2>3. CASE ~reset
      BY <2>1, <2>3 DEF ChangeAccess
    <2> QED BY <2>2, <2>3
  <1>11. \A f \in Families : Spent(f) => Spent(f)'
    <2> SUFFICES ASSUME NEW f \in Families, Spent(f) PROVE Spent(f)'
      OBVIOUS
    <2>1. door'[f] # None /\ door'[f].way = door[f].way /\ (door'[f].open => door[f].open)
      BY <1>9 DEF Spent
    <2> QED BY <2>1, <1>10 DEF Spent
  <1>12. handler' = handler
    BY DEF ChangeAccess
  <1>13. TypeOK'
    BY <1>2, <1>8, <1>10, <1>12 DEF ChangeAccess, Started, SessionInv, TypeOK
  <1> QED BY <1>3, <1>4, <1>5, <1>9, <1>11, <1>12, <1>13, Lowers

LEMMA ExpireTokenInv == ASSUME SessionInv, NEW t \in Tokens, ExpireToken(t) PROVE SessionInv'
  <1>1. token[t] \in Row
    BY DEF ExpireToken, SessionInv, TypeOK, Issued
  <1>2. PICK r \in Row : r = [token[t] EXCEPT !.expired = TRUE]
    BY <1>1, LoweredRow
  <1>3. r # None /\ r.family = token[t].family /\ r.expired /\ token' = [token EXCEPT ![t] = r]
    BY <1>1, <1>2, LoweredRow DEF ExpireToken
  <1>4. token' \in [Tokens -> Row \cup {None}] /\ token'[t] = r /\ \A s \in Tokens \ {t} : token'[s] = token[s]
    BY <1>3 DEF SessionInv, TypeOK
  <1>5. TypeOK' /\ UNCHANGED <<user, door, handler, ended>>
    BY <1>4 DEF ExpireToken, SessionInv, TypeOK
  <1>6. \A s \in Tokens : Issued(s)' <=> Issued(s)
    BY <1>3, <1>4 DEF Issued, ExpireToken
  <1>7. \A s \in Tokens : Issued(s) => token'[s].family = token[s].family /\ (Usable(s)' => Usable(s))
    BY <1>3, <1>4 DEF Usable
  <1>8. \A f \in Families : Spent(f) => Spent(f)'
    BY <1>5 DEF Spent
  <1> QED BY <1>5, <1>6, <1>7, <1>8, Lowers

LEMMA ExpireDoorInv == ASSUME SessionInv, NEW f \in Families, ExpireDoor(f) PROVE SessionInv'
  <1>1. door[f] \in Door
    BY DEF ExpireDoor, SessionInv, TypeOK
  <1>2. PICK d \in Door : d = [door[f] EXCEPT !.open = FALSE]
    BY <1>1 DEF Door
  <1>3. d # None /\ d.way = door[f].way /\ ~d.open /\ door' = [door EXCEPT ![f] = d]
    BY <1>1, <1>2, SessionsAssumption DEF Door, ExpireDoor
  <1>4. door' \in [Families -> Door \cup {None}] /\ door'[f] = d /\ \A g \in Families \ {f} : door'[g] = door[g]
    BY <1>3 DEF SessionInv, TypeOK
  <1>5. TypeOK' /\ UNCHANGED <<user, token, handler, ended>>
    BY <1>4 DEF ExpireDoor, SessionInv, TypeOK
  <1>6. \A g \in Families : door[g] # None => door'[g] # None /\ door'[g].way = door[g].way
    BY <1>3, <1>4
  <1>7. \A g \in Families : Spent(g) => Spent(g)'
    BY <1>3, <1>4, <1>5 DEF Spent
  <1>8. \A t \in Tokens : (Issued(t)' <=> Issued(t)) /\ (Usable(t)' <=> Usable(t)) /\ token'[t].family = token[t].family
    BY <1>5 DEF Issued, Usable
  <1> QED BY <1>5, <1>6, <1>7, <1>8, Lowers

-----------------------------------------------------------------------------
(* A rotation moves the one usable token of a family to a new row.         *)
LEMMA RotateFacts ==
  ASSUME SessionInv, NEW h \in Handlers, Rotate(h)
  PROVE  \E t, new \in Tokens :
           /\ Issued(t) /\ Usable(t) /\ ~Issued(new)
           /\ token' \in [Tokens -> Row \cup {None}]
           /\ Issued(t)' /\ token'[t].family = token[t].family /\ ~Usable(t)'
           /\ Issued(new)' /\ token'[new].family = token[t].family
           /\ \A s \in Tokens \ {t, new} : token'[s] = token[s]
  <1>1. PICK t \in Tokens : t = handler[h].token /\ Issued(t) /\ token[t] \in Row
    BY DEF Rotate, SessionInv, Remembered, Remembers, TypeOK, Issued
  <1>2. PICK new \in Tokens : /\ Usable(t) /\ ~Issued(new)
                              /\ token' = [token EXCEPT ![t].revoked = TRUE, ![new] = FreshRow(token[t].family)]
    BY <1>1 DEF Rotate, Usable
  <1>3. PICK r \in Row : r = [token[t] EXCEPT !.revoked = TRUE] /\ r.family = token[t].family /\ r.revoked /\ r # None
    BY <1>1, LoweredRow
  <1>4. PICK q \in Row : q = FreshRow(token[t].family) /\ q.family = token[t].family /\ q # None
    <2>1. token[t].family \in Families
      BY <1>1 DEF Row
    <2>2. FreshRow(token[t].family) \in Row /\ FreshRow(token[t].family).family = token[t].family
      BY <2>1 DEF FreshRow, Row
    <2> QED BY <2>2, SessionsAssumption
  <1>5. t # new /\ token' = [token EXCEPT ![t] = r, ![new] = q]
    BY <1>1, <1>2, <1>3, <1>4
  <1>6. /\ token' \in [Tokens -> Row \cup {None}] /\ token'[t] = r /\ token'[new] = q
        /\ \A s \in Tokens \ {t, new} : token'[s] = token[s]
    BY <1>5 DEF SessionInv, TypeOK
  <1>7. ~Usable(t)' /\ Issued(t)' /\ Issued(new)'
    BY <1>3, <1>4, <1>6 DEF Usable, Issued
  <1>8. token'[t].family = token[t].family /\ token'[new].family = token[t].family
    BY <1>3, <1>4, <1>6
  <1> WITNESS t \in Tokens, new \in Tokens
  <1> QED BY <1>1, <1>2, <1>6, <1>7, <1>8

LEMMA RotateInv == ASSUME SessionInv, NEW h \in Handlers, Rotate(h) PROVE SessionInv'
  <1>1. PICK t, new \in Tokens :
           /\ Issued(t) /\ Usable(t) /\ ~Issued(new)
           /\ token' \in [Tokens -> Row \cup {None}]
           /\ Issued(t)' /\ token'[t].family = token[t].family /\ ~Usable(t)'
           /\ Issued(new)' /\ token'[new].family = token[t].family
           /\ \A s \in Tokens \ {t, new} : token'[s] = token[s]
    BY RotateFacts
  <1>2. UNCHANGED <<user, door, ended>> /\ handler[h].at = "rotate"
    BY DEF Rotate
  <1>3. PICK idle \in Handler : idle = Idle
    BY DEF Idle, Handler, Steps
  <1>4. handler' \in [Handlers -> Handler] /\ handler'[h] = Idle /\ \A g \in Handlers \ {h} : handler'[g] = handler[g]
    BY <1>3 DEF Rotate, Answers, SessionInv, TypeOK
  <1>5. TypeOK'
    BY <1>1, <1>2, <1>4 DEF SessionInv, TypeOK
  <1>6. \A s \in Tokens : Issued(s) => Issued(s)' /\ token'[s].family = token[s].family
    BY <1>1 DEF Issued
  <1>7. ASSUME NEW s \in Tokens, Issued(s)', Usable(s)'
        PROVE  s = new \/ (s # t /\ Issued(s) /\ Usable(s) /\ token'[s] = token[s])
    BY <1>1, <1>7 DEF Issued, Usable
  <1>8. One'
    BY <1>1, <1>7 DEF SessionInv, One
  <1>9. Over'
    BY <1>1, <1>2, <1>7 DEF SessionInv, Over
  <1>10. EndedStarted'
    BY <1>2, <1>6 DEF SessionInv, EndedStarted, In
  <1>11. StartedSpent'
    <2> SUFFICES ASSUME NEW s \in Tokens, Issued(s)' PROVE Spent(token[s].family)'
      BY DEF StartedSpent
    <2>1. PICK a \in Tokens : Issued(a) /\ token'[s].family = token[a].family
      BY <1>1 DEF Issued
    <2>2. Spent(token[a].family)
      BY <2>1 DEF SessionInv, StartedSpent
    <2> QED BY <1>2, <2>1, <2>2 DEF Spent
  <1>12. ASSUME NEW g \in Handlers, g # h PROVE Remembers(g)'
    <2>1. handler'[g] = handler[g]
      BY <1>4, <1>12
    <2>2. ASSUME handler[g].at = "issue", NEW s \in Tokens PROVE ~In(handler[g].family, s)'
      <3>1. \A a \in Tokens : ~In(handler[g].family, a)
        BY <2>2 DEF SessionInv, Remembered, Remembers
      <3>2. Issued(s)' => \E a \in Tokens : Issued(a) /\ token'[s].family = token[a].family
        BY <1>1 DEF Issued
      <3> QED BY <2>1, <3>1, <3>2 DEF In
    <2>3. \A e \in Families : /\ Spent(e) => Spent(e)'
                              /\ door[e] # None => door'[e] # None /\ door'[e].way = door[e].way
      BY <1>2 DEF Spent
    <2> QED BY <1>6, <2>1, <2>2, <2>3, StillRemembers
  <1>13. Remembers(h)' /\ handler'[h].at = "idle"
    BY <1>4 DEF Idle, Remembers
  <1>14. OneIssuer'
    <2>1. \A g \in Handlers : handler'[g].at = "issue" => handler'[g] = handler[g]
      BY <1>4, <1>13
    <2> QED BY <2>1 DEF SessionInv, OneIssuer
  <1> QED BY <1>5, <1>8, <1>9, <1>10, <1>11, <1>12, <1>13, <1>14 DEF SessionInv, Remembered

-----------------------------------------------------------------------------
LEMMA NextInv == SessionInv /\ [Next]_vars => SessionInv'
  <1> SUFFICES ASSUME SessionInv, [Next]_vars PROVE SessionInv'
    OBVIOUS
  <1>1. CASE UNCHANGED vars
    <2>1. UNCHANGED <<user, door, token, handler, ended>>
      BY <1>1 DEF vars
    <2> QED BY <2>1 DEF SessionInv, TypeOK, One, Over, EndedStarted, StartedSpent, Remembered, Remembers, OneIssuer,
          In, Spent, Issued, Usable
  <1>2. ASSUME NEW h \in Handlers, NEW way \in Ways, Login(h, way) PROVE SessionInv'
    BY <1>2, LoginInv
  <1>3. ASSUME NEW h \in Handlers, IssueDirectly(h) PROVE SessionInv'
    BY <1>3, IssueDirectlyInv
  <1>4. ASSUME NEW h \in Handlers, IssueChallenge(h) \/ IssueSetup(h) PROVE SessionInv'
    <2>1. PICK way \in Ways, f \in Families : Opens(h, way, f) /\ UNCHANGED token
      BY <1>4 DEF IssueChallenge, IssueSetup, Ways
    <2> QED BY <2>1, IssueLaterInv
  <1>5. ASSUME NEW h \in Handlers, Consume(h) \/ Enable(h) \/ Issue(h) PROVE SessionInv'
    BY <1>5, ConsumeInv, EnableInv, IssueInv
  <1>6. ASSUME NEW h \in Handlers, Rotate(h) \/ DetectReuse(h) \/ RevokeReused(h) \/ Stop(h) PROVE SessionInv'
    BY <1>6, RotateInv, DetectReuseInv, RevokeReusedInv, StopInv
  <1>7. ASSUME NEW h \in Handlers, NEW f \in Families, Verify(h, f) \/ Activate(h, f) PROVE SessionInv'
    BY <1>7, VerifyInv, ActivateInv
  <1>8. ASSUME NEW h \in Handlers, NEW f \in Families, NEW t \in Tokens \cup {None}, LogoutAccess(h, f, t) PROVE SessionInv'
    BY <1>8, LogoutAccessInv
  <1>9. ASSUME NEW h \in Handlers, NEW t \in Tokens, Refresh(h, t) \/ LogoutCookie(h, t) PROVE SessionInv'
    BY <1>9, RefreshInv, LogoutCookieInv
  <1>10. ASSUME NEW reset \in BOOLEAN, ChangeAccess(reset) PROVE SessionInv'
    BY <1>10, ChangeAccessInv
  <1>11. ASSUME NEW t \in Tokens, ExpireToken(t) PROVE SessionInv'
    BY <1>11, ExpireTokenInv
  <1>12. ASSUME NEW f \in Families, ExpireDoor(f) PROVE SessionInv'
    BY <1>12, ExpireDoorInv
  <1> QED BY <1>1, <1>2, <1>3, <1>4, <1>5, <1>6, <1>7, <1>8, <1>9, <1>10, <1>11, <1>12 DEF Next

(* Whatever the requests do, the inductive invariant stands.               *)
LEMMA Invariance == Spec => []SessionInv
  <1>1. Init => SessionInv
    BY InitInv
  <1>2. SessionInv /\ [Next]_vars => SessionInv'
    BY NextInv
  <1> QED BY <1>1, <1>2, PTL DEF Spec

(* A family never has two usable tokens, however logins, enrolments,       *)
(* refreshes and logouts interleave and wherever they stop.                *)
THEOREM FamilyHasOneLiveToken == Spec => []OneLiveToken
  <1>1. SessionInv => OneLiveToken
    BY DEF SessionInv, One, OneLiveToken, Live, Of, Issued, Usable
  <1> QED BY <1>1, Invariance, PTL

(* A family revoked for a reuse, at logout or with the user's access has   *)
(* no usable token ever after.                                             *)
THEOREM RevokedFamilyStaysOver == Spec => []RevokedFamilyIsOver
  <1>1. SessionInv => RevokedFamilyIsOver
    BY DEF SessionInv, Over, RevokedFamilyIsOver, Live, Of, Issued, Usable
  <1> QED BY <1>1, Invariance, PTL

(* The rows and the requests have the values their columns and steps take. *)
THEOREM SessionTypes == Spec => []TypeOK
  <1>1. SessionInv => TypeOK
    BY DEF SessionInv
  <1> QED BY <1>1, Invariance, PTL

-----------------------------------------------------------------------------
\* A usable row of the next state was one before, or is the first of its
\* family, or replaces a usable row of it.
Restrained == \A t \in Tokens : Issued(t)' /\ Usable(t)' =>
  \/ Issued(t) /\ Usable(t) /\ token'[t].family = token[t].family
  \/ \A s \in Tokens : ~In(token'[t].family, s)
  \/ \E s \in Tokens : In(token'[t].family, s) /\ Usable(s)

LEMMA RestrainedByIssue ==
  ASSUME SessionInv, NEW h \in Handlers, IssueDirectly(h) \/ Issue(h)
  PROVE  Restrained
  <1>1. PICK t \in Tokens, f \in Families : token' = [token EXCEPT ![t] = FreshRow(f)] /\ \A s \in Tokens : ~In(f, s)
    <2>1. CASE IssueDirectly(h)
      <3> PICK way \in Ways : way = "direct"
        BY DEF Ways
      <3>1. PICK f \in Families, t \in Tokens : Opens(h, way, f) /\ token' = [token EXCEPT ![t] = FreshRow(f)]
        BY <2>1 DEF IssueDirectly
      <3> QED BY <3>1, OpensFacts
    <2>2. CASE Issue(h)
      <3>1. PICK t \in Tokens : token' = [token EXCEPT ![t] = FreshRow(handler[h].family)]
        BY <2>2 DEF Issue
      <3>2. handler[h].family \in Families /\ \A s \in Tokens : ~In(handler[h].family, s)
        BY <2>2 DEF Issue, SessionInv, Remembered, Remembers
      <3> QED BY <3>1, <3>2
    <2> QED BY <2>1, <2>2
  <1>2. token'[t].family = f /\ \A s \in Tokens \ {t} : token'[s] = token[s]
    BY <1>1 DEF FreshRow, SessionInv, TypeOK
  <1> QED BY <1>1, <1>2 DEF Restrained, Issued, Usable

LEMMA RestrainedByLowering ==
  ASSUME SessionInv, \A t \in Tokens : Issued(t)' /\ Usable(t)' => Issued(t) /\ Usable(t) /\ token'[t].family = token[t].family
  PROVE  Restrained
  BY DEF Restrained

LEMMA NextRestrained == SessionInv /\ [Next]_vars => Restrained
  <1> SUFFICES ASSUME SessionInv, [Next]_vars PROVE Restrained
    OBVIOUS
  <1>1. \A t \in Tokens : Issued(t) => token[t] \in Row
    BY DEF SessionInv, TypeOK, Issued
  <1>2. CASE UNCHANGED token
    BY <1>2 DEF Restrained, Issued, Usable
  <1>3. ASSUME NEW h \in Handlers, IssueDirectly(h) \/ Issue(h) PROVE Restrained
    BY <1>3, RestrainedByIssue
  <1>4. ASSUME NEW h \in Handlers, Rotate(h) PROVE Restrained
    <2>1. PICK t, new \in Tokens :
           /\ Issued(t) /\ Usable(t) /\ ~Issued(new)
           /\ token' \in [Tokens -> Row \cup {None}]
           /\ Issued(t)' /\ token'[t].family = token[t].family /\ ~Usable(t)'
           /\ Issued(new)' /\ token'[new].family = token[t].family
           /\ \A s \in Tokens \ {t, new} : token'[s] = token[s]
      BY <1>4, RotateFacts
    <2> QED BY <2>1 DEF Restrained, Issued, Usable, In
  <1>5. ASSUME NEW f, Revoke(f) PROVE Restrained
    BY <1>1, <1>5, LoweredRow DEF Revoke, Of, Restrained, Issued, Usable
  <1>6. ASSUME NEW h \in Handlers, RevokeReused(h) PROVE Restrained
    BY <1>1, <1>6, LoweredRow DEF RevokeReused, Revoke, Of, Restrained, Issued, Usable
  <1>7. ASSUME NEW h \in Handlers, NEW t \in Tokens, LogoutCookie(h, t) PROVE Restrained
    BY <1>1, <1>7, LoweredRow DEF LogoutCookie, Revoke, Of, Restrained, Issued, Usable
  <1>8. ASSUME NEW reset \in BOOLEAN, ChangeAccess(reset) PROVE Restrained
    BY <1>1, <1>8, LoweredRow DEF ChangeAccess, Restrained, Issued, Usable
  <1>9. ASSUME NEW t \in Tokens, ExpireToken(t) PROVE Restrained
    <2>1. token[t] \in Row
      BY <1>9 DEF ExpireToken, SessionInv, TypeOK, Issued
    <2>2. token'[t] = [token[t] EXCEPT !.expired = TRUE] /\ \A s \in Tokens \ {t} : token'[s] = token[s]
      BY <1>9 DEF ExpireToken, SessionInv, TypeOK
    <2>3. ~Usable(t)'
      BY <2>1, <2>2, LoweredRow DEF Usable
    <2> QED BY <2>2, <2>3 DEF Restrained, Issued, Usable
  <1>10. CASE UNCHANGED vars
    BY <1>2, <1>10 DEF vars
  <1>11. CASE Next
    <2>1. ASSUME NEW h \in Handlers, NEW way \in Ways, Login(h, way) PROVE Restrained
      BY <1>2, <2>1 DEF Login
    <2>2. ASSUME NEW h \in Handlers, IssueChallenge(h) \/ IssueSetup(h) \/ Consume(h) \/ Enable(h) \/ DetectReuse(h) \/ Stop(h)
          PROVE  Restrained
      BY <1>2, <2>2 DEF IssueChallenge, IssueSetup, Consume, Enable, DetectReuse, Stop
    <2>3. ASSUME NEW h \in Handlers, NEW f \in Families, Verify(h, f) \/ Activate(h, f) PROVE Restrained
      BY <1>2, <2>3 DEF Verify, Activate
    <2>4. ASSUME NEW h \in Handlers, NEW f \in Families, NEW t \in Tokens \cup {None}, LogoutAccess(h, f, t) PROVE Restrained
      BY <1>5, <2>4 DEF LogoutAccess
    <2>5. ASSUME NEW h \in Handlers, NEW t \in Tokens, Refresh(h, t) PROVE Restrained
      BY <1>2, <2>5 DEF Refresh
    <2>6. ASSUME NEW f \in Families, ExpireDoor(f) PROVE Restrained
      BY <1>2, <2>6 DEF ExpireDoor
    <2> QED BY <1>3, <1>4, <1>6, <1>7, <1>8, <1>9, <1>11, <2>1, <2>2, <2>3, <2>4, <2>5, <2>6 DEF Next
  <1> QED BY <1>10, <1>11

(* A family that had tokens and has none left that can be used is never    *)
(* revived, whatever is presented or answered again.                       *)
THEOREM FamilyIsNeverRevived == Spec => NoRevival
  <1>1. SessionInv /\ Restrained => \A f \in Started : Live(f) = {} => Live(f)' = {}
    BY DEF Restrained, Started, Live, Of, In, Issued, Usable
  <1>2. SessionInv /\ [Next]_vars => \A f \in Started : Live(f) = {} => Live(f)' = {}
    BY <1>1, NextRestrained
  <1> QED BY <1>2, Invariance, PTL DEF Spec, NoRevival
=============================================================================

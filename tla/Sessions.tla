------------------------------ MODULE Sessions ------------------------------
(***************************************************************************)
(* Login, refresh and logout of one user (src/lib/auth, src/lib/access).   *)
(*                                                                         *)
(* A login opens a family of refresh tokens: at once, after an MFA         *)
(* challenge kept in the database, or after an MFA enrolment kept in a     *)
(* signed cookie.  Each refresh replaces the family's token; a token       *)
(* presented a second time ends the family, and so do a logout and a       *)
(* change of the user's access.  A request is served in several statements *)
(* of which only the rotation, the issue after a challenge and the change  *)
(* of access are transactions, so handlers interleave between any two, and *)
(* a handler may stop anywhere: a refusal for reasons outside the model    *)
(* (wrong code, rate limit, write conflict), a failed statement or the     *)
(* death of the process.  A client may present any token it was ever given *)
(* at any time, also one whose replacement it never received.              *)
(***************************************************************************)
EXTENDS Naturals, FiniteSets

CONSTANTS
  Families, Tokens, Handlers,
  MaxResets,      \* bound: password resets
  None

VARIABLES
  user,     \* users: the password in force and whether MFA is enabled
  door,     \* how a family was opened: nothing, the challenge or the cookie
  token,    \* refresh_tokens
  handler,  \* the requests being served
  ended     \* history: families revoked by a reuse, a logout or a change

vars == <<user, door, token, handler, ended>>
-----------------------------------------------------------------------------
Ways == {"direct", "challenge", "setup"}
Door == [way : Ways, open : BOOLEAN, epoch : 0..MaxResets]
Row == [family : Families, revoked : BOOLEAN, expired : BOOLEAN]

ASSUME SessionsAssumption == MaxResets \in Nat /\ None \notin Families \cup Tokens \cup Door \cup Row

Steps == {"idle", "open", "consume", "enable", "issue", "rotate", "revoke", "cookie"}
Handler == [at : Steps, way : Ways \cup {None}, family : Families \cup {None}, token : Tokens \cup {None}]
Idle == [at |-> "idle", way |-> None, family |-> None, token |-> None]

Init ==
  /\ user = [epoch |-> 0, mfa |-> FALSE]
  /\ door = [f \in Families |-> None]
  /\ token = [t \in Tokens |-> None]
  /\ handler = [h \in Handlers |-> Idle]
  /\ ended = {}

Issued(t) == token[t] # None
Of(f) == {t \in Tokens : Issued(t) /\ token[t].family = f}
Live(f) == {t \in Of(f) : ~token[t].revoked /\ ~token[t].expired}
FreshRow(f) == [family |-> f, revoked |-> FALSE, expired |-> FALSE]

Goes(h, step, way, f, t) == handler' = [handler EXCEPT ![h] = [at |-> step, way |-> way, family |-> f, token |-> t]]
Answers(h) == handler' = [handler EXCEPT ![h] = Idle]

\* Every token of family f that is not revoked yet is, expired or not.
Revoke(f) ==
  /\ token' = [t \in Tokens |-> IF t \in Of(f) THEN [token[t] EXCEPT !.revoked = TRUE] ELSE token[t]]
  /\ ended' = ended \cup {f}
-----------------------------------------------------------------------------
(* Login: the password is checked against the row read, and the same row   *)
(* and the roles of the moment decide how the family will be opened: a     *)
(* privileged user without MFA must enrol first.                           *)
WaysIn == IF user.mfa THEN {"challenge"} ELSE {"setup", "direct"}

Login(h, way) ==
  /\ handler[h].at = "idle" /\ way \in WaysIn
  /\ Goes(h, "open", way, None, None)
  /\ UNCHANGED <<user, door, token, ended>>

Opens(h, way, f) ==
  /\ handler[h].at = "open" /\ handler[h].way = way /\ door[f] = None
  /\ door' = [door EXCEPT ![f] = [way |-> way, open |-> way # "direct", epoch |-> user.epoch]]
  /\ Answers(h)
  /\ UNCHANGED <<user, ended>>

IssueDirectly(h) == \E f \in Families, t \in Tokens :
  /\ Opens(h, "direct", f)
  /\ ~Issued(t)
  /\ token' = [token EXCEPT ![t] = FreshRow(f)]

IssueChallenge(h) == (\E f \in Families : Opens(h, "challenge", f)) /\ UNCHANGED token
IssueSetup(h) == (\E f \in Families : Opens(h, "setup", f)) /\ UNCHANGED token
-----------------------------------------------------------------------------
(* The second factor: the challenge is consumed, or MFA enabled, by a      *)
(* conditional update; only then is the family's first token issued.       *)
Holds(f, way) == door[f] # None /\ door[f].way = way /\ door[f].open

Verify(h, f) ==
  /\ handler[h].at = "idle" /\ Holds(f, "challenge") /\ user.mfa
  /\ Goes(h, "consume", None, f, None)
  /\ UNCHANGED <<user, door, token, ended>>

\* seeded fault: the challenge is consumed without its conditions (mfaChallenge.ts:79)
ConsumeAnyway(h) == LET f == handler[h].family IN
  /\ handler[h].at = "consume"
  /\ door' = [door EXCEPT ![f].open = FALSE]
  /\ Goes(h, "issue", None, f, None)
  /\ UNCHANGED <<user, token, ended>>

Consume(h) == LET f == handler[h].family IN
  /\ handler[h].at = "consume" /\ Holds(f, "challenge")
  /\ door' = [door EXCEPT ![f].open = FALSE]
  /\ Goes(h, "issue", None, f, None)
  /\ UNCHANGED <<user, token, ended>>

Enrollable(f) == Holds(f, "setup") /\ ~user.mfa /\ user.epoch = door[f].epoch

Activate(h, f) ==
  /\ handler[h].at = "idle" /\ Enrollable(f)
  /\ Goes(h, "enable", None, f, None)
  /\ UNCHANGED <<user, door, token, ended>>

\* seeded fault: MFA is enabled without the condition that it is not yet (enrollment.ts:184-195)
EnableAgain(h) == LET f == handler[h].family IN
  /\ handler[h].at = "enable"
  /\ user' = [user EXCEPT !.mfa = TRUE]
  /\ Goes(h, "issue", None, f, None)
  /\ UNCHANGED <<door, token, ended>>

\* The cookie is not looked at again: it may expire meanwhile.
Enable(h) == LET f == handler[h].family IN
  /\ handler[h].at = "enable"
  /\ ~user.mfa /\ user.epoch = door[f].epoch
  /\ user' = [user EXCEPT !.mfa = TRUE]
  /\ Goes(h, "issue", None, f, None)
  /\ UNCHANGED <<door, token, ended>>

Issue(h) == \E t \in Tokens :
  /\ handler[h].at = "issue" /\ ~Issued(t)
  /\ token' = [token EXCEPT ![t] = FreshRow(handler[h].family)]
  /\ Answers(h)
  /\ UNCHANGED <<user, door, ended>>
-----------------------------------------------------------------------------
(* Refresh: the rotation is one transaction; when it finds the token       *)
(* revoked, the family is revoked by a statement of its own, later.        *)
Refresh(h, t) ==
  /\ handler[h].at = "idle" /\ Issued(t)
  /\ Goes(h, "rotate", None, None, t)
  /\ UNCHANGED <<user, door, token, ended>>

\* seeded fault: a revoked token rotates again (refreshToken.ts:79)
UsableWhileFresh(t) == ~token[t].expired

Usable(t) == ~token[t].revoked /\ ~token[t].expired

Rotate(h) == LET t == handler[h].token IN \E new \in Tokens :
  /\ handler[h].at = "rotate" /\ Usable(t) /\ ~Issued(new)
  /\ token' = [token EXCEPT ![t].revoked = TRUE, ![new] = FreshRow(token[t].family)]
  /\ Answers(h)
  /\ UNCHANGED <<user, door, ended>>

DetectReuse(h) == LET t == handler[h].token IN
  /\ handler[h].at = "rotate" /\ token[t].revoked
  /\ Goes(h, "revoke", None, token[t].family, None)
  /\ UNCHANGED <<user, door, token, ended>>

RevokeReused(h) ==
  /\ handler[h].at = "revoke"
  /\ Revoke(handler[h].family)
  /\ Answers(h)
  /\ UNCHANGED <<user, door>>
-----------------------------------------------------------------------------
(* Logout: the family named by the access token is revoked, then that of   *)
(* the refresh token; a browser may hold either, both or neither.          *)
LogoutAccess(h, f, t) ==
  /\ handler[h].at = "idle" /\ Of(f) # {}
  /\ t # None => Issued(t)
  /\ Revoke(f)
  /\ IF t = None THEN Answers(h) ELSE Goes(h, "cookie", None, None, t)
  /\ UNCHANGED <<user, door>>

LogoutCookie(h, t) ==
  /\ \/ handler[h].at = "idle" /\ Issued(t)
     \/ handler[h].at = "cookie" /\ handler[h].token = t
  /\ Revoke(token[t].family)
  /\ Answers(h)
  /\ UNCHANGED <<user, door>>

Started == {f \in Families : Of(f) # {}}

\* A password reset, or an administrator's change of the user or of a role:
\* one transaction revokes every token and consumes every challenge.
ChangeAccess(reset) ==
  /\ reset => user.epoch < MaxResets
  /\ user' = IF reset THEN [user EXCEPT !.epoch = @ + 1] ELSE user
  /\ token' = [t \in Tokens |-> IF Issued(t) THEN [token[t] EXCEPT !.revoked = TRUE] ELSE None]
  /\ door' = [f \in Families |-> IF Holds(f, "challenge") THEN [door[f] EXCEPT !.open = FALSE] ELSE door[f]]
  /\ ended' = ended \cup Started
  /\ UNCHANGED handler

ExpireToken(t) ==
  /\ Issued(t) /\ ~token[t].expired
  /\ token' = [token EXCEPT ![t].expired = TRUE]
  /\ UNCHANGED <<user, door, handler, ended>>

ExpireDoor(f) ==
  /\ door[f] # None /\ door[f].open
  /\ door' = [door EXCEPT ![f].open = FALSE]
  /\ UNCHANGED <<user, token, handler, ended>>

\* The request is refused, fails or dies with its process: what it wrote stays.
Stop(h) == handler[h].at # "idle" /\ Answers(h) /\ UNCHANGED <<user, door, token, ended>>

Next ==
  \/ \E h \in Handlers :
       \/ \E way \in Ways : Login(h, way)
       \/ IssueDirectly(h) \/ IssueChallenge(h) \/ IssueSetup(h)
       \/ Consume(h) \/ Enable(h) \/ Issue(h)
       \/ Rotate(h) \/ DetectReuse(h) \/ RevokeReused(h) \/ Stop(h)
       \/ \E f \in Families : Verify(h, f) \/ Activate(h, f)
       \/ \E f \in Families, t \in Tokens \cup {None} : LogoutAccess(h, f, t)
       \/ \E t \in Tokens : Refresh(h, t) \/ LogoutCookie(h, t)
  \/ \E reset \in BOOLEAN : ChangeAccess(reset)
  \/ \E t \in Tokens : ExpireToken(t)
  \/ \E f \in Families : ExpireDoor(f)

Spec == Init /\ [][Next]_vars
-----------------------------------------------------------------------------
(* The rows and the requests have the values their columns and steps take. *)
TypeOK ==
  /\ user \in [epoch : 0..MaxResets, mfa : BOOLEAN]
  /\ door \in [Families -> Door \cup {None}]
  /\ token \in [Tokens -> Row \cup {None}]
  /\ handler \in [Handlers -> Handler]
  /\ ended \subseteq Families

(* A family never has two usable tokens, whatever challenges, enrolments   *)
(* and refreshes run at once and wherever they stop: a second one would    *)
(* be a session that no reuse ever ends (refreshToken.ts:80-91,            *)
(* sessions.ts:53, mfaChallenge.ts:77-83, enrollment.ts:184-195).          *)
OneLiveToken == \A f \in Families : \A s, t \in Live(f) : s = t

(* Once a family was revoked for a reuse, at logout or with the user's     *)
(* access, it has no usable token ever after, also when a refresh of it    *)
(* was under way (refreshToken.ts:98-104, 127-136, reset.ts:63).           *)
RevokedFamilyIsOver == \A f \in ended : Live(f) = {}

(* A family that had tokens and has none left that can be used, expired or *)
(* revoked, is never revived: not by presenting an old token, and not by a *)
(* challenge or an enrolment answered twice.                               *)
NoRevival == [][\A f \in Started : Live(f) = {} => Live(f)' = {}]_vars
=============================================================================

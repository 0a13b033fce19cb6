------------------------------ MODULE Authority ------------------------------
(***************************************************************************)
(* What the approval gate and the trust grants promise the operator about  *)
(* who lets the fleet act, whoever decides, renews, revokes or times out   *)
(* at the same time:                                                       *)
(*                                                                         *)
(*   - a question is answered once: by a human, by the announced meaning   *)
(*     of silence, or by a grant that is in force at that moment;          *)
(*   - trust begins with a human: an administrator, or one "always" said   *)
(*     with an approval, which is good for one grant;                      *)
(*   - trust ends once, and a renewal ends the grant it carries on and     *)
(*     gives no more money.                                                *)
(*                                                                         *)
(* How an action is charged to a grant and when a grant is due to end are  *)
(* left out.  TrustGrants, ApprovalGate and PromotionLadder implement this *)
(* specification together.                                                 *)
(***************************************************************************)
EXTENDS Integers

CONSTANTS
  Asks,            \* the approvals
  Trusts,          \* the grants
  Classes,
  Delegable,       \* the classes a grant may cover
  SilenceAllows,   \* the classes whose silence means yes
  SilenceRefuses   \* and those whose silence means no

VARIABLES
  answer,  \* of an approval: its class, the verdict and whose it is
  trust    \* of a grant: its class, whether it is in force, its money, its approval

NotAsked == [class |-> "none", verdict |-> "none", by |-> "none"]
NoTrust  == [class |-> "none", state |-> "none", budget |-> 0, from |-> 0]

Init ==
  /\ answer = [a \in Asks |-> NotAsked]
  /\ trust = [g \in Trusts |-> NoTrust]

Unasked == {a \in Asks : answer[a] = NotAsked}
Open    == {a \in Asks : answer[a].verdict = "open"}
Unused  == {g \in Trusts : trust[g] = NoTrust}
Live    == {g \in Trusts : trust[g].state = "live"}

-----------------------------------------------------------------------------
(* Questions and answers *)

Answer(a, c, verdict, by) ==
  /\ answer' = [answer EXCEPT ![a] = [class |-> c, verdict |-> verdict, by |-> by]]
  /\ UNCHANGED trust

Ask(a, c) == Answer(a, c, "open", "none")

\* A grant in force answers before the question is put to anyone.
Authorize(a, g) ==
  trust[g].class \in Delegable /\ Answer(a, trust[g].class, "allowed", "grant")

Settle(a, verdict, by) == Answer(a, answer[a].class, verdict, by)

Decide(a) == Settle(a, "allowed", "human") \/ Settle(a, "refused", "human")

TimeOut(a) ==
  \/ answer[a].class \in SilenceAllows /\ Settle(a, "allowed", "timeout")
  \/ answer[a].class \in SilenceRefuses /\ Settle(a, "refused", "timeout")

Withdraw(a) == Settle(a, "withdrawn", "none")

-----------------------------------------------------------------------------
(* Trust *)

\* A grant in force, with the money it is given in this step.
Begun(g, c, a) == [class |-> c, state |-> "live", budget |-> trust'[g].budget, from |-> a]

Begin(g, c, a) ==
  /\ c \in Delegable
  /\ trust' = [trust EXCEPT ![g] = Begun(g, c, a)] /\ trust'[g].budget > 0
  /\ UNCHANGED answer

\* "Always approve this class": of an approval a human gave, and once.
BeginFrom(g, a) ==
  /\ answer[a].verdict = "allowed" /\ answer[a].by = "human"
  /\ \A h \in Trusts : trust[h].from # a
  /\ Begin(g, answer[a].class, a)

EndTrust(g) ==
  /\ trust' = [trust EXCEPT ![g].state = "over"]
  /\ UNCHANGED answer

Renew(g, h) ==
  /\ trust' = [trust EXCEPT ![g].state = "over", ![h] = Begun(h, trust[g].class, 0)]
  /\ trust'[h].budget <= trust[g].budget
  /\ UNCHANGED answer

Step ==
  \/ \E a \in Unasked : (\E c \in Classes : Ask(a, c)) \/ (\E g \in Live : Authorize(a, g))
  \/ \E a \in Open : Decide(a) \/ TimeOut(a) \/ Withdraw(a)
  \/ \E g \in Unused : (\E c \in Classes : Begin(g, c, 0)) \/ (\E a \in Asks : BeginFrom(g, a))
  \/ \E g \in Live : EndTrust(g) \/ \E h \in Unused : Renew(g, h)

\* A step answers a question or changes what is trusted.
Next == (answer' # answer \/ trust' # trust) /\ Step

Spec == Init /\ [][Next]_<<answer, trust>>
=============================================================================

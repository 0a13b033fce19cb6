------------------------------ MODULE Repositories ------------------------------
(***************************************************************************)
(* A repository's registration and its ladder of permissions               *)
(* (repositories/repositories.service.ts).                                 *)
(*                                                                         *)
(* Repositories do not meet, so there is one.  Every request reads the row *)
(* first and writes by id later; between the two lies a call to GitHub, or *)
(* nothing but the await.  Retiring and un-retiring read and write in one  *)
(* transaction, whose isolation (read committed) lets others commit in     *)
(* between; the audit row is written with the update and left out.         *)
(***************************************************************************)
EXTENDS Naturals, FiniteSets

CONSTANTS
  Operators,             \* who sends requests
  MaxRepositoryRequests  \* bound: requests ever sent

ASSUME RepositoryConstants == MaxRepositoryRequests \in Nat

VARIABLES
  repository,       \* the row, if there is one
  requests,         \* per operator: the request being handled and what it read
  hasWorkOrders,    \* a work order points at the row
  reachable,        \* GitHub shows the repository, unarchived, to the token
  requestCount

repositoryVars == <<repository, requests, hasWorkOrders, reachable, requestCount>>

Rungs        == {"observe", "mirrorLabels", "specFeedback", "dispatch"}
Ladders      == {{}, {"observe"}, {"observe", "mirrorLabels", "specFeedback"}, {"dispatch"}}
NoRepository == [id |-> 0, rungs |-> {}, retired |-> FALSE]
NoRequest    == [op |-> "none", on |-> {}, off |-> {}, seen |-> NoRepository]
Registered   == repository.id # 0

RepositoriesOK ==
  /\ repository.rungs \subseteq Rungs /\ repository.id \in 0..(MaxRepositoryRequests + 1)
  /\ repository.retired \in BOOLEAN
  /\ \A o \in Operators :
       requests[o].op \in {"none", "register", "update", "retire", "unretire", "remove"}
  /\ hasWorkOrders => Registered
  /\ reachable \in BOOLEAN /\ requestCount \in 0..MaxRepositoryRequests

RepositoryInit ==
  /\ repository = NoRepository
  /\ requests = [o \in Operators |-> NoRequest]
  /\ hasWorkOrders = FALSE /\ reachable = TRUE /\ requestCount = 0

-----------------------------------------------------------------------------
(* The reads: what is refused is refused here and changes nothing.          *)

Request(o, op, on, off) ==
  /\ requests[o] = NoRequest /\ requestCount < MaxRepositoryRequests
  /\ requests' = [requests EXCEPT ![o] = [op |-> op, on |-> on, off |-> off, seen |-> repository]]
  /\ requestCount' = requestCount + 1
  /\ UNCHANGED <<repository, hasWorkOrders, reachable>>

RegisterRead(o, on) == ~Registered /\ Request(o, "register", on, {})

\* A mutant of RungsAllowed: a PATCH may put a rung back on.
RungsAllowedAlways(on) == TRUE

\* A retired repository takes no rung.
RungsAllowed(on) == repository.retired => on = {}

UpdateRead(o, on, off) ==
  /\ Registered /\ on \cap off = {} /\ RungsAllowed(on)
  /\ Request(o, "update", on, off)

RetireRead(o)   == Registered /\ ~repository.retired /\ Request(o, "retire", {}, {})
UnretireRead(o) == Registered /\ repository.retired /\ Request(o, "unretire", {}, {})
RemoveRead(o)   == Registered /\ ~hasWorkOrders /\ Request(o, "remove", {}, {})

-----------------------------------------------------------------------------
(* The writes *)

\* The row a request read is still there; an update of one that is not throws.
SameRow(o) == Registered /\ repository.id = requests[o].seen.id

\* The request fails: GitHub is not reachable, the row is gone or taken, or
\* the database does not answer.
RequestFails(o) ==
  /\ requests[o].op # "none"
  /\ requests' = [requests EXCEPT ![o] = NoRequest]
  /\ UNCHANGED <<repository, hasWorkOrders, reachable, requestCount>>

Finish(o, row) ==
  /\ repository' = row
  /\ requests' = [requests EXCEPT ![o] = NoRequest]
  /\ UNCHANGED <<reachable, requestCount>>

\* owner and name are unique.
RegisterCreate(o) ==
  /\ requests[o].op = "register" /\ reachable /\ ~Registered
  /\ Finish(o, [id |-> requestCount + 1, rungs |-> requests[o].on, retired |-> FALSE])
  /\ UNCHANGED hasWorkOrders

\* Dispatch is switched on only for a repository that can be reached now; the
\* update names the flags of the request and no others.
UpdateWrite(o) ==
  LET r == requests[o] IN
  /\ r.op = "update" /\ SameRow(o)
  /\ ("dispatch" \in r.on /\ "dispatch" \notin r.seen.rungs) => reachable
  /\ Finish(o, [repository EXCEPT !.rungs = (@ \cup r.on) \ r.off])
  /\ UNCHANGED hasWorkOrders

RetireCommit(o) ==
  /\ requests[o].op = "retire" /\ SameRow(o)
  /\ Finish(o, [repository EXCEPT !.rungs = {}, !.retired = TRUE])
  /\ UNCHANGED hasWorkOrders

\* Back at the bottom of the ladder.
UnretireCommit(o) ==
  /\ requests[o].op = "unretire" /\ SameRow(o)
  /\ Finish(o, [repository EXCEPT !.rungs = {"observe"}, !.retired = FALSE])
  /\ UNCHANGED hasWorkOrders

\* The delete takes the work orders with it (onDelete: Cascade).
RemoveDelete(o) ==
  /\ requests[o].op = "remove" /\ SameRow(o)
  /\ Finish(o, NoRepository)
  /\ hasWorkOrders' = FALSE

-----------------------------------------------------------------------------
(* Elsewhere *)

\* A reconciler pass projects a first work order of an observed repository.
WorkOrderAppears ==
  /\ "observe" \in repository.rungs /\ ~hasWorkOrders /\ hasWorkOrders' = TRUE
  /\ UNCHANGED <<repository, requests, reachable, requestCount>>

\* The token loses the repository, or gets it back.
AccessChanges ==
  /\ reachable' = ~reachable
  /\ UNCHANGED <<repository, requests, hasWorkOrders, requestCount>>

RepositoryNext ==
  \/ \E o \in Operators, on, off \in Ladders : RegisterRead(o, on) \/ UpdateRead(o, on, off)
  \/ \E o \in Operators :
       \/ RetireRead(o) \/ UnretireRead(o) \/ RemoveRead(o) \/ RequestFails(o)
       \/ RegisterCreate(o) \/ UpdateWrite(o) \/ RetireCommit(o) \/ UnretireCommit(o)
       \/ RemoveDelete(o)
  \/ WorkOrderAppears \/ AccessChanges

RepositorySpec == RepositoryInit /\ [][RepositoryNext]_repositoryVars

-----------------------------------------------------------------------------
(* Properties *)

\* "A repository with retiredAt set has all four ladder flags off" (schema.prisma
\* :455), whatever sequence of registering, patching, retiring, un-retiring and
\* removing led there.  Kept by an operator who waits for each answer; two
\* requests at once break it: a PATCH that read the row before it was retired
\* writes its rungs after (update).
RetiredIsOffTheLadder == repository.retired => repository.rungs = {}

=============================================================================

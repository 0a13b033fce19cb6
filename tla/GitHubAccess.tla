----------------------------- MODULE GitHubAccess -----------------------------
(***************************************************************************)
(* Conditional reads of GitHub (github/github-http.service.ts) through the *)
(* ETag cache (etag-cache.service.ts): callers that overlap on one URL,    *)
(* each holding across its awaits and its retries the entry it found when  *)
(* it began, while answers are lost, delayed and delivered out of order,   *)
(* the resource changes, perhaps back to what it was, and the entry is     *)
(* evicted or invalidated.                                                 *)
(*                                                                         *)
(* A body stands for its ETag as well: GitHub's is a digest of the body.   *)
(***************************************************************************)
EXTENDS Naturals

CONSTANTS
  Callers,            \* requests of the URL that may overlap
  Bodies,             \* what the resource can be
  NoBody,             \* no cache entry; no answer yet
  maxRetries,         \* github.maxRetries
  MaxBodyChanges,     \* bound: changes of the resource
  MaxReads            \* bound: requests of one caller

ASSUME GitHubConstants ==
  /\ NoBody \notin Bodies /\ Bodies # {}
  /\ maxRetries \in Nat /\ MaxBodyChanges \in Nat /\ MaxReads \in Nat

VARIABLES
  resource,     \* what GitHub holds
  entry,        \* the cache's entry for the URL
  reads,        \* the request of each caller
  bodyChanges

githubVars == <<resource, entry, reads, bodyChanges>>

\* `at` is where the request is: idle, on its way (sent), answered and on its
\* way back, or finished.  `held` is observed: what the resource has been since
\* the request began.
NoRead == [at |-> "idle", cached |-> NoBody, attempt |-> 0, status |-> 0,
           body |-> NoBody, held |-> {}, begun |-> 0]

GitHubOK ==
  /\ resource \in Bodies /\ entry \in Bodies \cup {NoBody}
  /\ \A c \in Callers :
       /\ reads[c].at \in {"idle", "sent", "answered", "done", "failed"}
       /\ reads[c].cached \in Bodies \cup {NoBody} /\ reads[c].body \in Bodies \cup {NoBody}
       /\ reads[c].attempt \in 0..maxRetries /\ reads[c].status \in {0, 200, 304}
       /\ reads[c].held \subseteq Bodies /\ reads[c].begun \in 0..MaxReads
  /\ bodyChanges \in 0..MaxBodyChanges

GitHubInit ==
  /\ resource \in Bodies /\ entry = NoBody
  /\ reads = [c \in Callers |-> NoRead] /\ bodyChanges = 0

-----------------------------------------------------------------------------
(* The caller *)

\* A mutant of cachedBody: the entry the cache has when the 304 arrives.
cachedBodyNow(c) == entry
\* What a 304 stands for: the body of the entry whose ETag was sent.
cachedBody(c)    == reads[c].cached

\* request(): the entry is read once, before the retry loop.
StartRead(c) ==
  /\ reads[c].at \in {"idle", "done", "failed"} /\ reads[c].begun < MaxReads
  /\ reads' = [reads EXCEPT ![c] =
       [NoRead EXCEPT !.at = "sent", !.cached = entry, !.held = {resource},
                      !.begun = reads[c].begun + 1]]
  /\ UNCHANGED <<resource, entry, bodyChanges>>

\* attempt(), a 200: the entry is replaced by this answer, whenever it was made.
ReceiveBody(c) ==
  /\ reads[c].at = "answered" /\ reads[c].status = 200
  /\ entry' = reads[c].body
  /\ reads' = [reads EXCEPT ![c].at = "done"]
  /\ UNCHANGED <<resource, bodyChanges>>

\* attempt(), a 304: the caller is given the cached body, the cache stays.
ReceiveNotModified(c) ==
  /\ reads[c].at = "answered" /\ reads[c].status = 304
  /\ reads' = [reads EXCEPT ![c].at = "done", ![c].body = cachedBody(c)]
  /\ UNCHANGED <<resource, entry, bodyChanges>>

\* A mutant of RetriesLeft: one attempt too many.
RetriesLeftOneMore(c) == reads[c].attempt <= maxRetries
RetriesLeft(c)        == reads[c].attempt < maxRetries

\* A timeout, a network failure or a server error, on the way there or back:
\* the attempt is repeated with the entry the request began with, or given up.
FailTransiently(c) ==
  /\ reads[c].at \in {"sent", "answered"}
  /\ reads' = [reads EXCEPT ![c] =
       IF RetriesLeft(c)
         THEN [@ EXCEPT !.at = "sent", !.attempt = reads[c].attempt + 1,
                        !.status = 0, !.body = NoBody]
         ELSE [@ EXCEPT !.at = "failed", !.status = 0, !.body = NoBody]]
  /\ UNCHANGED <<resource, entry, bodyChanges>>

\* Exhaustion, a refused credential, a 404: final, never retried.
Refuse(c) ==
  /\ reads[c].at = "sent"
  /\ reads' = [reads EXCEPT ![c].at = "failed"]
  /\ UNCHANGED <<resource, entry, bodyChanges>>

\* The entry leaves: the oldest of a full cache, or invalidateRepository.
Evict ==
  /\ entry # NoBody /\ entry' = NoBody
  /\ UNCHANGED <<resource, reads, bodyChanges>>

-----------------------------------------------------------------------------
(* GitHub *)

Answer(c) ==
  /\ reads[c].at = "sent"
  /\ reads' = [reads EXCEPT ![c] =
       IF reads[c].cached = resource
         THEN [@ EXCEPT !.at = "answered", !.status = 304]
         ELSE [@ EXCEPT !.at = "answered", !.status = 200, !.body = resource]]
  /\ UNCHANGED <<resource, entry, bodyChanges>>

ResourceChanges ==
  /\ bodyChanges < MaxBodyChanges /\ bodyChanges' = bodyChanges + 1
  /\ resource' \in Bodies \ {resource}
  /\ reads' = [c \in Callers |->
       IF reads[c].at \in {"sent", "answered"}
         THEN [reads[c] EXCEPT !.held = @ \cup {resource'}] ELSE reads[c]]
  /\ UNCHANGED entry

GitHubNext ==
  \/ \E c \in Callers :
       \/ StartRead(c) \/ ReceiveBody(c) \/ ReceiveNotModified(c)
       \/ FailTransiently(c) \/ Refuse(c) \/ Answer(c)
  \/ Evict \/ ResourceChanges

-----------------------------------------------------------------------------

\* A finished read returns something the resource was while it ran, whether it
\* was a 200 or a 304, and whatever a slower read wrote into the cache between.
\* Hazard: an answer made before a change is stored after one made since.
AnswersAreFresh ==
  \A c \in Callers : reads[c].at = "done" => reads[c].body \in reads[c].held
=============================================================================

--------------------------- MODULE FirestoreClient ---------------------------
(***************************************************************************)
(* The write half of the Firestore client that every screen of Travelers   *)
(* calls through setData: one client per device.  A write is put on the    *)
(* persistent mutation queue of the user the client believes to be signed  *)
(* in, sent in order over the write stream, and removed when the backend   *)
(* acknowledges or refuses it.  The queues outlive the process; the write  *)
(* stream and the pipeline of sent writes do not.                          *)
(*                                                                         *)
(* The module has the client's state and its steps.  What a mutation does  *)
(* to a document, and who is told of its outcome, belongs to the module    *)
(* that extends it.                                                        *)
(***************************************************************************)
EXTENDS Naturals, Sequences

CONSTANTS
  Devices,          \* installations of the app
  Users,            \* Firebase accounts
  NoUser,           \* nobody signed in (User::Unauthenticated)
  Denied,           \* signers whose writes the backend's rules refuse
  MaxPendingWrites  \* kMaxPendingWrites, the length of the write pipeline

Signers == Users \cup {NoUser}

ASSUME ClientAssumption ==
  /\ NoUser \notin Users
  /\ Denied \subseteq Signers
  /\ MaxPendingWrites \in Nat \ {0}

VARIABLES
  fsUser,    \* SyncEngine::current_user_ of each device
  queue,     \* the persistent mutation queue of each device and user
  inflight   \* how many writes at the front of the current user's queue
             \* the backend has committed and not yet acknowledged

clientVars == <<fsUser, queue, inflight>>

ClientTypeOK(Mutations) ==
  /\ fsUser \in [Devices -> Signers]
  /\ queue \in [Devices -> [Signers -> Seq(Mutations)]]
  /\ inflight \in [Devices -> Nat]

(* The first run of the app on every device, nobody signed in. *)
ClientInit ==
  /\ fsUser = [d \in Devices |-> NoUser]
  /\ queue = [d \in Devices |-> [u \in Signers |-> << >>]]
  /\ inflight = [d \in Devices |-> 0]

(* The queue the write stream of device d is working on. *)
Current(d) == queue[d][fsUser[d]]

(* The write goes to the queue of the client's current user, whoever the   *)
(* caller took the user to be.                                             *)
WriteMutations(d, m) ==
  /\ queue' = [queue EXCEPT ![d][fsUser[d]] = Append(@, m)]
  /\ UNCHANGED <<fsUser, inflight>>

(* The backend executes the next write of the pipeline.  The caller says   *)
(* what m does to the documents.                                           *)
CanCommit(d) ==
  /\ fsUser[d] \notin Denied
  /\ inflight[d] < Len(Current(d))
  /\ inflight[d] < MaxPendingWrites

NextWrite(d) == Current(d)[inflight[d] + 1]

CommitWrite(d) ==
  /\ CanCommit(d)
  /\ inflight' = [inflight EXCEPT ![d] = @ + 1]
  /\ UNCHANGED <<fsUser, queue>>

RemoveFront(d) == queue' = [queue EXCEPT ![d][fsUser[d]] = Tail(@)]

(* An answer always concerns the front of the pipeline. *)
HandleSuccessfulWrite(d) ==
  /\ inflight[d] > 0
  /\ RemoveFront(d)
  /\ inflight' = [inflight EXCEPT ![d] = @ - 1]
  /\ UNCHANGED fsUser

HandleRejectedWrite(d) ==
  /\ fsUser[d] \in Denied
  /\ inflight[d] = 0
  /\ Current(d) # << >>
  /\ RemoveFront(d)
  /\ UNCHANGED <<fsUser, inflight>>

(* A transient error closes the stream: what was sent and not acknowledged *)
(* is sent again from the front, committed or not.                         *)
OnWriteStreamClose(d) ==
  /\ inflight[d] > 0
  /\ inflight' = [inflight EXCEPT ![d] = 0]
  /\ UNCHANGED <<fsUser, queue>>

(* Faulty: the queue of the previous user is dropped. *)
HandleCredentialChangeDrops(d, u) ==
  /\ fsUser' = [fsUser EXCEPT ![d] = u]
  /\ inflight' = [inflight EXCEPT ![d] = 0]
  /\ queue' = [queue EXCEPT ![d][fsUser[d]] = << >>]

(* The client learns that u is signed in now: it swaps the queue and, even *)
(* when u is the user it already has, restarts the streams.                *)
HandleCredentialChange(d, u) ==
  /\ fsUser' = [fsUser EXCEPT ![d] = u]
  /\ inflight' = [inflight EXCEPT ![d] = 0]
  /\ UNCHANGED queue

(* A new process reads the queues back from disk and has a new stream; u   *)
(* is the user restored from the keychain.                                 *)
RestartClient(d, u) == HandleCredentialChange(d, u)
==============================================================================

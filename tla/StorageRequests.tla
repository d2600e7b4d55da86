-------------------------- MODULE StorageRequests --------------------------
(***************************************************************************)
(* A storage node collects files: it keeps a list of requests, asks the    *)
(* storage thread what is there, fetches the rest from the channels, and   *)
(* announces on the chain what it has.                                     *)
(*                                                                         *)
(* The list (storage_controller::map) is a store with commit and discard.  *)
(* What is being asked for (channels_files_requesting) is in memory, and a *)
(* new round begins only when it is empty; so each entry must be taken out *)
(* by the session or the callback that is responsible for it, exactly      *)
(* once, however that ends.                                                *)
(*                                                                         *)
(* Node and storage are two threads joined by a stream.  The node's        *)
(* sessions with the storage form a queue, its head waits for an answer;   *)
(* answers name no session.  The channels are external, so is mesh.pp,     *)
(* which keeps the queue and drops it when a session fails or expires.     *)
(***************************************************************************)
EXTENDS FiniteSets, Naturals, Sequences

CONSTANTS
    File,
    Channel,
    Wanted,         \* the files contents and commands name, each with its channel
    Held,           \* the files each channel can send
    Uploads,        \* files that come over rpc
    None,
    MaxRequests,    \* STORAGE_MAX_FILE_REQUESTS
    MaxUnresolved,  \* 10 in get_file_requests
    MaxAhead        \* bound: messages and sessions between the two threads

ASSUME RequestsAssumption ==
    /\ IsFiniteSet(File)
    /\ Held \in [Channel -> SUBSET File]
    /\ Wanted \subseteq File \X Channel
    /\ Uploads \subseteq File
    /\ None \notin File \cup Channel
    /\ {MaxRequests, MaxUnresolved, MaxAhead} \subseteq Nat \ {0}

VARIABLES
    managed,        \* a storage manager is configured
    requests,       \* file_requests: the channel each file is wanted from
    saved,          \* file_requests as committed
    requesting,     \* channels_files_requesting: whether the channel was asked
    fetching,       \* the request_file actions that live
    slave,          \* the session with the storage: a queue of actions
    toStorage,      \* messages to the storage thread
    toNode,         \* its answers
    files,          \* what the storage holds
    announced,      \* what the documents say it holds
    orderly         \* history: each answer went to the action that asked

list   == <<requests, saved>>
line   == <<slave, toStorage, toNode>>
vars   == <<managed, list, requesting, fetching, line, files, announced, orderly>>

(* Actions of the slave session.  asks: the entries of requesting they are *)
(* responsible for.                                                        *)
UrisAction(asks)       == [kind |-> "uris", asks |-> asks, file |-> None]
SaveAction(file, asks) == [kind |-> "save", asks |-> asks, file |-> file]
DeleteAction(file)     == [kind |-> "delete", asks |-> {}, file |-> file]
Answer(kind, file) == [kind |-> kind, file |-> file, has |-> {}]

Requested(list1) == {f \in File : list1[f] # None}
AsksOf(queue)    == UNION {queue[i].asks : i \in DOMAIN queue}
Without(entries) == [p \in DOMAIN requesting \ entries |-> requesting[p]]
WithRequest(list1, f, c) == IF list1[f] = None THEN [list1 EXCEPT ![f] = c] ELSE list1

(***************************************************************************)
(* storage_controller                                                      *)
(***************************************************************************)

(* Fault: the channel is not compared. *)
PopFromAnyChannel(entries) ==
    LET gone == {p[1] : p \in entries}
    IN  /\ requests' = [f \in File |-> IF f \in gone THEN None ELSE requests[f]]
        /\ saved' = IF gone = {} THEN saved ELSE requests'

(* pop: `at` throws when there is no request, see the callers.  A request  *)
(* to another channel stays.                                               *)
Pop(entries) ==
    LET gone == {f \in File : <<f, requests[f]>> \in entries}
    IN  /\ requests' = [f \in File |-> IF f \in gone THEN None ELSE requests[f]]
        /\ saved' = IF gone = {} THEN saved ELSE requests'

(* Can be popped without a throw. *)
Poppable(entries) == {p \in entries : requests[p[1]] # None}

(* get_file_requests.  With too many channels unresolved the requests to   *)
(* those met late are erased; the order of the keys is arbitrary.          *)
KeptUnresolved(resolved) ==
    LET unresolved == {requests[f] : f \in Requested(requests)} \ resolved
    IN  IF Cardinality(unresolved) <= MaxUnresolved THEN {unresolved}
        ELSE {kept \in SUBSET unresolved : Cardinality(kept) = MaxUnresolved}
Askable(resolved) ==
    LET all == {p \in Wanted : p[2] \in resolved /\ requests[p[1]] = p[2]}
    IN  IF Cardinality(all) <= MaxRequests THEN {all}
        ELSE {asks \in SUBSET all : Cardinality(asks) = MaxRequests}

(***************************************************************************)
(* The session with the storage thread                                     *)
(***************************************************************************)
Message(action) == [kind |-> action.kind, file |-> action.file]

(* m_sessions.add: the first action is initiated at once. *)
AddToSlave(action) ==
    /\ slave' = Append(slave, action)
    /\ toStorage' = IF slave = <<>> THEN Append(toStorage, Message(action)) ELSE toStorage
    /\ UNCHANGED toNode

(* The head has completed: the next action is initiated. *)
NextInSlave ==
    /\ slave' = Tail(slave)
    /\ toStorage' = IF Len(slave) = 1 THEN toStorage
                    ELSE Append(toStorage, Message(slave[2]))

(* Fault: an action that never got its answer tells no one. *)
DropSlaveSilently(entries) ==
    /\ slave' = <<>>
    /\ requesting' = Without(entries)
    /\ UNCHANGED toStorage

(* An action failed: the session goes, each destructor calls its callback  *)
(* with an error, and those take their entries out.                        *)
DropSlave(entries) ==
    /\ slave' = <<>>
    /\ requesting' = Without(entries \cup AsksOf(slave))
    /\ UNCHANGED toStorage

Room == Len(slave) + Len(toStorage) + Len(toNode) < MaxAhead

(***************************************************************************)
(* What makes requests                                                     *)
(***************************************************************************)
Init ==
    /\ managed \in BOOLEAN
    /\ requests = [f \in File |-> None]
    /\ saved = requests
    /\ requesting = <<>>
    /\ fetching = {}
    /\ slave = <<>> /\ toStorage = <<>> /\ toNode = <<>>
    /\ files = {}
    /\ announced = {}
    /\ orderly = TRUE

(* A block with a content of channel c is applied: mine_block and the      *)
(* block session save and commit the list at their end.                    *)
ContentApplied(f, c) ==
    /\ ~managed
    /\ requests' = WithRequest(requests, f, c)
    /\ saved' = requests'
    /\ UNCHANGED <<managed, requesting, fetching, line, files, announced, orderly>>

(* One that fails discards the list, with what was not saved. *)
ChainHandlerFails ==
    /\ requests' = saved
    /\ UNCHANGED <<managed, saved, requesting, fetching, line, files, announced, orderly>>

(* StorageUpdateCommand of the manager: enqueued, not saved. *)
StoreCommand(f, c) ==
    /\ managed
    /\ requests' = WithRequest(requests, f, c)
    /\ UNCHANGED <<managed, saved, requesting, fetching, line, files, announced, orderly>>

(* A command of the manager to remove a file, or StorageFileDelete over    *)
(* rpc, which a node without a manager takes as well.                      *)
RemoveCommand(f) ==
    /\ Room
    /\ AddToSlave(DeleteAction(f))
    /\ UNCHANGED <<managed, list, requesting, fetching, files, announced, orderly>>

(* StorageFile over rpc. *)
Upload(f) ==
    /\ f \in Uploads
    /\ Room
    /\ AddToSlave(SaveAction(f, {}))
    /\ UNCHANGED <<managed, list, requesting, fetching, files, announced, orderly>>

(* SetVerifiedChannels, of which no session waits for the answer. *)
TellVerifiedChannels ==
    /\ Room
    /\ toStorage' = Append(toStorage, [kind |-> "verified", file |-> None])
    /\ UNCHANGED <<managed, list, requesting, fetching, slave, toNode, files, announced, orderly>>

(***************************************************************************)
(* A round of requests                                                     *)
(***************************************************************************)

(* The check timer: `resolved` are the channels with a fresh address. *)
CheckFiles(resolved) ==
    /\ requesting = <<>>
    /\ Room
    /\ \E kept \in KeptUnresolved(resolved), asks \in Askable(resolved) :
          /\ requests' = [f \in File |-> IF requests[f] \in resolved \cup kept
                                         THEN requests[f] ELSE None]
          /\ requesting' = [p \in asks |-> FALSE]
          /\ IF asks = {} THEN UNCHANGED line ELSE AddToSlave(UrisAction(asks))
    /\ UNCHANGED <<managed, saved, fetching, files, announced, orderly>>

(* The storage thread: one message. *)
Serve ==
    /\ toStorage # <<>>
    /\ toStorage' = Tail(toStorage)
    /\ LET m == Head(toStorage)
       IN  /\ files' = CASE m.kind = "save"   -> files \cup {m.file}
                         [] m.kind = "delete" -> files \ {m.file}
                         [] OTHER             -> files
           /\ toNode' = Append(toNode,
                 CASE m.kind = "uris"   -> [kind |-> "uris", file |-> None, has |-> files]
                   [] m.kind = "save"   -> Answer(IF m.file \in files THEN "duplicate"
                                                  ELSE "address", m.file)
                   [] m.kind = "delete" -> Answer(IF m.file \in files THEN "done"
                                                  ELSE "missing", m.file)
                   [] OTHER             -> Answer("done", None))
    /\ UNCHANGED <<managed, list, requesting, fetching, slave, announced, orderly>>

Takes(action, m) ==
    CASE action.kind = "uris" -> m.kind = "uris"
      [] action.kind = "save" -> m.kind \in {"address", "duplicate", "missing"}
      [] OTHER                -> m.kind \in {"done", "duplicate", "missing"}
Awaited(m) == slave # <<>> /\ Takes(Head(slave), m)

(* The callback of get_file_uris.  What is missing is fetched, what is     *)
(* there is announced and popped until one announcement (its fee, its      *)
(* role) or pop throws; the rest is then taken out by the guard.           *)
UrisArrive(m) ==
    LET asks == Head(slave).asks
        there == {p \in asks : p[1] \in m.has}
    IN  /\ fetching' = fetching \cup (asks \ there)
        /\ \E done \in SUBSET Poppable(there) :
              /\ Pop(done)
              /\ \E told \in {done} \cup {done \cup {p} : p \in there \ done} :
                    announced' = announced \cup {p[1] : p \in told}
              /\ IF done = there
                 THEN NextInSlave /\ requesting' = Without(there)
                 ELSE /\ slave' = <<>>
                      /\ requesting' = Without(there \cup AsksOf(Tail(slave)))
                      /\ UNCHANGED toStorage

(* The callback that request_file gives to save_file: the entry is taken   *)
(* out; a file that is stored is announced and popped, either may throw.   *)
(* A duplicate is not compared with the file that was asked for.           *)
FetchedSaved(m, p) ==
    \/ /\ \/ m.kind = "duplicate"
          \/ m.kind = "address" /\ m.file = p[1]
       /\ announced' = announced \cup {p[1]}
       /\ IF p \in Poppable({p})
          THEN NextInSlave /\ Pop({p}) /\ requesting' = Without({p})
          ELSE DropSlave({p}) /\ UNCHANGED list
    \/ /\ m.kind # "missing"
       /\ DropSlave({p})
       /\ UNCHANGED <<list, announced>>
    \/ /\ m.kind = "missing"
       /\ NextInSlave
       /\ requesting' = Without({p})
       /\ UNCHANGED <<list, announced>>

(* The callbacks of an upload and of delete_storage_file. *)
UploadSaved(m) ==
    \/ /\ NextInSlave
       /\ announced' = IF m.kind = "address" THEN announced \cup {m.file} ELSE announced
       /\ UNCHANGED <<list, requesting>>
    \/ /\ m.kind = "address"
       /\ DropSlave({})
       /\ UNCHANGED <<list, announced>>
Deleted(m) ==
    \/ /\ NextInSlave
       /\ announced' = IF m.kind = "done" THEN announced \ {Head(slave).file} ELSE announced
       /\ UNCHANGED <<list, requesting>>
    \/ /\ m.kind = "done"
       /\ DropSlave({})
       /\ UNCHANGED <<list, announced>>

(* An answer completes the head of the queue. *)
SlaveTakes ==
    /\ toNode # <<>>
    /\ Awaited(Head(toNode))
    /\ toNode' = Tail(toNode)
    /\ LET m == Head(toNode)
           action == Head(slave)
       IN  /\ CASE action.kind = "uris"   -> UrisArrive(m)
                [] action.kind = "delete" -> Deleted(m) /\ UNCHANGED fetching
                [] action.asks = {}       -> UploadSaved(m) /\ UNCHANGED fetching
                [] OTHER -> /\ \E p \in action.asks : FetchedSaved(m, p)
                            /\ UNCHANGED fetching
           /\ orderly' = (orderly /\ m.file = action.file)
    /\ UNCHANGED <<managed, files>>

(* No action waits for it. *)
SlaveIgnores ==
    /\ toNode # <<>>
    /\ ~ Awaited(Head(toNode))
    /\ toNode' = Tail(toNode)
    /\ UNCHANGED <<managed, list, requesting, fetching, slave, toStorage, files, announced, orderly>>

(* The session expires; the answer to its head comes later. *)
SlaveExpires ==
    /\ slave # <<>>
    /\ DropSlave({})
    /\ orderly' = FALSE
    /\ UNCHANGED <<managed, list, fetching, toNode, files, announced>>

(***************************************************************************)
(* The sessions with the channels: connected and verified, then one file   *)
(* after the other                                                         *)
(***************************************************************************)
Asked(p) == requesting[p]

(* request_file::initiate *)
AskChannel(p) ==
    /\ p \in fetching
    /\ \A q \in fetching : q[2] = p[2] => ~ Asked(q)
    /\ requesting' = [requesting EXCEPT ![p] = TRUE]
    /\ UNCHANGED <<managed, list, fetching, line, files, announced, orderly>>

(* It answers with the file, which goes to the storage. *)
ChannelSends(p) ==
    /\ p \in fetching /\ Asked(p)
    /\ p[1] \in Held[p[2]]
    /\ fetching' = fetching \ {p}
    /\ AddToSlave(SaveAction(p[1], {p}))
    /\ UNCHANGED <<managed, list, requesting, files, announced, orderly>>

(* Fault: only the action that was initiated is responsible. *)
FetchGoneAskedOnly(c, settled) ==
    LET rest == {q \in fetching : q[2] = c}
    IN  /\ fetching' = fetching \ rest
        /\ requesting' = Without({q \in rest : Asked(q)} \cup settled)

(* The destructors of the actions that are left. *)
FetchGone(c, settled) ==
    LET rest == {q \in fetching : q[2] = c}
    IN  /\ fetching' = fetching \ rest
        /\ requesting' = Without(rest \cup settled)

(* It does not have the file. *)
ChannelRefuses(p) ==
    /\ p \in fetching /\ Asked(p)
    /\ p[1] \notin Held[p[2]]
    /\ IF p \in Poppable({p})
       THEN Pop({p}) /\ fetching' = fetching \ {p} /\ requesting' = Without({p})
       ELSE UNCHANGED list /\ FetchGone(p[2], {p})
    /\ UNCHANGED <<managed, line, files, announced, orderly>>

(* Not connected, not verified, no answer in time, or a wrong file. *)
FetchEnds(c) ==
    /\ \E p \in fetching : p[2] = c
    /\ FetchGone(c, {})
    /\ UNCHANGED <<managed, list, line, files, announced, orderly>>

Restart ==
    /\ requests' = saved
    /\ requesting' = <<>>
    /\ fetching' = {}
    /\ slave' = <<>> /\ toStorage' = <<>> /\ toNode' = <<>>
    /\ orderly' = TRUE
    /\ UNCHANGED <<managed, saved, files, announced>>

ChannelEnds(c) ==
    \/ \E p \in fetching : p[2] = c /\ (ChannelSends(p) \/ ChannelRefuses(p))
    \/ FetchEnds(c)

Next ==
    \/ \E p \in Wanted : ContentApplied(p[1], p[2]) \/ StoreCommand(p[1], p[2])
    \/ ChainHandlerFails
    \/ \E f \in File : RemoveCommand(f) \/ Upload(f)
    \/ TellVerifiedChannels
    \/ \E resolved \in SUBSET Channel : CheckFiles(resolved)
    \/ Serve
    \/ SlaveTakes \/ SlaveIgnores \/ SlaveExpires
    \/ \E p \in Wanted : AskChannel(p)
    \/ \E c \in Channel : ChannelEnds(c)
    \/ Restart

Spec == Init /\ [][Next]_vars

(* A session ends with an answer or at its time (1 minute, 3 minutes). *)
FairSpec ==
    /\ Spec
    /\ WF_vars(SlaveTakes \/ SlaveExpires)
    /\ \A c \in Channel : WF_vars(ChannelEnds(c))

(***************************************************************************)
(* Properties                                                              *)
(***************************************************************************)
(* Each file that is being requested is the business of exactly one        *)
(* session action, which asked the channel at most once: so `initiate`     *)
(* (storage.cpp) finds what it looks for and never throws, and nothing     *)
(* that no one will take out stands in the way of the next round.          *)
RequestsHaveOneOwner ==
    /\ DOMAIN requesting = fetching \cup AsksOf(slave)
    /\ fetching \cap AsksOf(slave) = {}
    /\ \A i, j \in DOMAIN slave : i # j => slave[i].asks \cap slave[j].asks = {}
    /\ \A p \in AsksOf(slave) :
          requesting[p] <=> \E i \in DOMAIN slave : slave[i] = SaveAction(p[1], {p})
    /\ \A p, q \in fetching : p # q /\ p[2] = q[2] => ~ (requesting[p] /\ requesting[q])

(* A request leaves the list when its file is in the storage and announced,*)
(* when its own channel does not have it, or when too many channels are    *)
(* unresolved (get_file_requests); not because a handler failed, a session *)
(* ended, another channel refused or the node stopped.  Except that a      *)
(* command's request, which node.cpp does not save, may be discarded; and  *)
(* provided each answer of the storage went to the action that asked.      *)
RequestsLeaveSettled ==
    [][orderly' => \A f \in Requested(requests) \ Requested(requests') :
           \/ f \in files /\ f \in announced'
           \/ f \notin Held[requests[f]]
           \/ Cardinality({requests[g] : g \in Requested(requests)}) > MaxUnresolved
           \/ managed /\ requests' = saved /\ saved[f] = None]_vars

(* However sessions end, the node comes to ask again. *)
AsksAgain == []<>(requesting = <<>>)
============================================================================

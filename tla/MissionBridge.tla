----------------------------- MODULE MissionBridge -----------------------------
(***************************************************************************)
(* scripts/louis_mission_bridge.py and its workflow: a queue of questions     *)
(* from the VM to a tutor, in one JSON file.  Every command of the script is   *)
(* a process that reads the file, decides and, unless it returns early,         *)
(* replaces it by way of one temporary file, whose name all of them share.      *)
(* The workflow runs pending, mark-published and answer as root, one workflow   *)
(* run after the other (concurrency group); services of the VM request and      *)
(* consume whenever they like.  A file belongs to whoever created it, with      *)
(* mode 0600.                                                                   *)
(***************************************************************************)
EXTENDS Naturals

CONSTANTS
  Id,         \* request ids
  Client,     \* processes of the VM that request and consume
  Root,       \* the clients that run as root; the others run as louis-os
  Workflow,   \* the runs of the workflow, which exclude each other
  Response,   \* what the tutor can reply
  None,
  Empty, Overlaid,  \* a file without text yet; one text written over another
  NoFile,           \* there is no temporary file
  MaxPosts,   \* bound: comments published for a request
  MaxReplies, \* bound: replies written by the tutor for a request
  MaxLost     \* bound: commands that die

ASSUME BridgeAssumption ==
  /\ Workflow \notin Client /\ Root \subseteq Client
  /\ None \notin Response \cup Id
  /\ MaxPosts \in Nat /\ MaxReplies \in Nat /\ MaxLost \in Nat

Process == Client \cup {Workflow}
Record  ==
  [status : {"absent", "pending_publish", "published"}, response : {None}]
    \cup [status : {"answered", "consumed"}, response : Response]
Queue   == [Id -> Record]
Content == Queue \cup {Empty, Overlaid}
TmpFile == [content : Content, owner : {"vm", "root"}]

ASSUME ContentAssumption ==
  Empty # Overlaid /\ {Empty, Overlaid} \cap Queue = {} /\ NoFile \notin TmpFile

Saving  == {"request", "mark", "answer", "consume"}
Command == [op : Saving \cup {"none", "post", "posted"}, id : Id \cup {None},
            reply : Response \cup {None}, seen : Queue,
            stage : {"loaded", "opened", "written"},
            handle : {"none", "tmp", "state", "unlinked"}]

VARIABLES
  file,     \* Content: requests.json
  owner,    \* "vm" or "root": who may read it, besides root
  tmp,      \* requests.tmp: NoFile or its content and owner
  cmd,      \* [Process -> Command]: the command under way
  posts,    \* [Id -> Nat]: comments on issue 77 asking for this request
  replies,  \* [Id -> Nat]: replies of the tutor
  accepted, \* history: [Id -> SUBSET Response]: replies that answer stored
  got,      \* history: [Id -> SUBSET (Response \cup {None})]: given to consumers
  lost      \* commands that died

bridge == <<file, owner, tmp, cmd, posts, replies, accepted, got, lost>>

Absent  == [status |-> "absent", response |-> None]
Blank   == [i \in Id |-> Absent]
Idle    == [op |-> "none", id |-> None, reply |-> None, seen |-> Blank,
            stage |-> "loaded", handle |-> "none"]

BridgeInit ==
  /\ file = Blank /\ owner = "vm" /\ tmp = NoFile
  /\ cmd = [p \in Process |-> Idle]
  /\ posts = [i \in Id |-> 0] /\ replies = [i \in Id |-> 0]
  /\ accepted = [i \in Id |-> {}] /\ got = [i \in Id |-> {}]
  /\ lost = 0

Free(p) == cmd[p].op = "none"
User(p) == IF p \in Root \cup {Workflow} THEN "root" ELSE "vm"

(* load(): what is not JSON counts as no requests at all.                     *)
Readable(p) == User(p) = "root" \/ owner = "vm"
Loaded      == IF file \in Queue THEN file ELSE Blank

Reading(op, i, r) == [op |-> op, id |-> i, reply |-> r, seen |-> Loaded,
                      stage |-> "loaded", handle |-> "none"]
Enter(p, op, i, r) == cmd' = [cmd EXCEPT ![p] = Reading(op, i, r)]
Exit(p) == cmd' = [cmd EXCEPT ![p] = Idle]

-------------------------------------------------------------------------------
(* The commands, up to the save() of those that change something.             *)

(* request: without effect if the id is known.                               *)
Request(p, i) ==
  /\ p \in Client /\ Free(p) /\ Readable(p)
  /\ Loaded[i].status = "absent"
  /\ Enter(p, "request", i, None)
  /\ UNCHANGED <<file, owner, tmp, posts, replies, accepted, got, lost>>

(* The job "pump": pending, then a comment, then mark-published.             *)
Pending(i) ==
  /\ Free(Workflow)
  /\ Loaded[i].status = "pending_publish"
  /\ Enter(Workflow, "post", i, None)
  /\ UNCHANGED <<file, owner, tmp, posts, replies, accepted, got, lost>>

Post ==
  LET i == cmd[Workflow].id IN
  /\ cmd[Workflow].op = "post"
  /\ posts[i] < MaxPosts
  /\ posts' = [posts EXCEPT ![i] = @ + 1]
  /\ cmd' = [cmd EXCEPT ![Workflow].op = "posted"]
  /\ UNCHANGED <<file, owner, tmp, replies, accepted, got, lost>>

MarkPublished ==
  LET i == cmd[Workflow].id IN
  /\ cmd[Workflow].op = "posted"
  /\ IF Loaded[i].status \in {"pending_publish", "published"}
       THEN Enter(Workflow, "mark", i, None)
       ELSE Exit(Workflow)
  /\ UNCHANGED <<file, owner, tmp, posts, replies, accepted, got, lost>>

(* The job "receive-response": a comment of the tutor, stored.  A comment is   *)
(* one event: it is handled once, and the tutor may comment again.             *)
Answer(i, r) ==
  /\ Free(Workflow)
  /\ posts[i] > 0 /\ replies[i] < MaxReplies
  /\ replies' = [replies EXCEPT ![i] = @ + 1]
  /\ IF Loaded[i].status \in {"absent", "consumed"}
       THEN UNCHANGED <<cmd, accepted>>
       ELSE /\ Enter(Workflow, "answer", i, r)
            /\ accepted' = [accepted EXCEPT ![i] = @ \cup {r}]
  /\ UNCHANGED <<file, owner, tmp, posts, got, lost>>

(* Mutant: consume does not look at the status.                               *)
ConsumeAny(p, i) ==
  /\ p \in Client /\ Free(p) /\ Readable(p)
  /\ Loaded[i].status # "consumed"
  /\ Enter(p, "consume", i, Loaded[i].response)
  /\ UNCHANGED <<file, owner, tmp, posts, replies, accepted, got, lost>>

(* consume: the first time it also marks the request.                        *)
Consume(p, i) ==
  /\ p \in Client /\ Free(p) /\ Readable(p)
  /\ Loaded[i].status = "answered"
  /\ Enter(p, "consume", i, Loaded[i].response)
  /\ UNCHANGED <<file, owner, tmp, posts, replies, accepted, got, lost>>

ConsumeAgain(p, i) ==
  /\ p \in Client /\ Free(p) /\ Readable(p)
  /\ Loaded[i].status = "consumed"
  /\ got' = [got EXCEPT ![i] = @ \cup {Loaded[i].response}]
  /\ UNCHANGED <<file, owner, tmp, cmd, posts, replies, accepted, lost>>

-------------------------------------------------------------------------------
(* save(), step by step.                                                      *)

(* What the command makes of what it has read.                               *)
Updated(c) ==
  CASE c.op = "request" -> [status |-> "pending_publish", response |-> None]
    [] c.op = "mark"    -> [c.seen[c.id] EXCEPT !.status = "published"]
    [] c.op = "answer"  -> [status |-> "answered", response |-> c.reply]
    [] c.op = "consume" -> [status |-> "consumed", response |-> c.reply]
Copy(c) == [c.seen EXCEPT ![c.id] = Updated(c)]

MayOpen(p) == tmp # NoFile => User(p) = "root" \/ tmp.owner = "vm"

(* write_text: open truncates the file that is there, or creates it ...       *)
OpenTmp(p) ==
  /\ cmd[p].op \in Saving /\ cmd[p].stage = "loaded" /\ MayOpen(p)
  /\ tmp' = [content |-> Empty, owner |-> IF tmp = NoFile THEN User(p) ELSE tmp.owner]
  /\ cmd' = [cmd EXCEPT ![p].stage = "opened", ![p].handle = "tmp"]
  /\ UNCHANGED <<file, owner, posts, replies, accepted, got, lost>>

(* ... and writes from its start: over a longer text, the rest of it stays.    *)
Texts(old, new) == IF old = Empty THEN {new} ELSE {new, Overlaid}

(* The file it has opened may have become requests.json meanwhile, or been     *)
(* replaced there.                                                            *)
WriteTmp(p) ==
  /\ cmd[p].op \in Saving /\ cmd[p].stage = "opened"
  /\ \/ /\ cmd[p].handle = "tmp"
        /\ \E text \in Texts(tmp.content, Copy(cmd[p])) : tmp' = [tmp EXCEPT !.content = text]
        /\ UNCHANGED file
     \/ /\ cmd[p].handle = "state"
        /\ file' \in Texts(file, Copy(cmd[p]))
        /\ UNCHANGED tmp
     \/ /\ cmd[p].handle = "unlinked"
        /\ UNCHANGED <<file, tmp>>
  /\ cmd' = [cmd EXCEPT ![p].stage = "written", ![p].handle = "none"]
  /\ UNCHANGED <<owner, posts, replies, accepted, got, lost>>

Moved(handle) ==
  CASE handle = "tmp" -> "state" [] handle = "state" -> "unlinked" [] OTHER -> handle

(* chmod and replace: whatever is in the temporary file becomes the queue.  A   *)
(* consumer is given its response after that.                                 *)
ReplaceState(p) ==
  /\ cmd[p].op \in Saving /\ cmd[p].stage = "written" /\ tmp # NoFile /\ MayOpen(p)
  /\ file' = tmp.content /\ owner' = tmp.owner /\ tmp' = NoFile
  /\ cmd' = [q \in Process |->
               IF q = p THEN Idle ELSE [cmd[q] EXCEPT !.handle = Moved(@)]]
  /\ got' = IF cmd[p].op = "consume"
              THEN [got EXCEPT ![cmd[p].id] = @ \cup {cmd[p].reply}] ELSE got
  /\ UNCHANGED <<posts, replies, accepted, lost>>

(* The temporary file is another user's, or another process has moved it: the  *)
(* command ends with the exception, and its caller goes on without it.         *)
SaveRaises(p) ==
  /\ cmd[p].op \in Saving
  /\ \/ cmd[p].stage = "loaded" /\ ~MayOpen(p)
     \/ cmd[p].stage = "written" /\ (tmp = NoFile \/ ~MayOpen(p))
  /\ Exit(p)
  /\ UNCHANGED <<file, owner, tmp, posts, replies, accepted, got, lost>>

(* The process or its job is lost wherever it stands.                         *)
CommandLost(p) ==
  /\ ~Free(p) /\ lost < MaxLost
  /\ lost' = lost + 1
  /\ Exit(p)
  /\ UNCHANGED <<file, owner, tmp, posts, replies, accepted, got>>

BridgeNext ==
  \/ \E p \in Client, i \in Id : Request(p, i) \/ Consume(p, i) \/ ConsumeAgain(p, i)
  \/ \E i \in Id : Pending(i) \/ \E r \in Response : Answer(i, r)
  \/ Post \/ MarkPublished
  \/ \E p \in Process : \/ OpenTmp(p) \/ WriteTmp(p) \/ ReplaceState(p)
                        \/ SaveRaises(p) \/ CommandLost(p)

BridgeSpec == BridgeInit /\ [][BridgeNext]_bridge

-------------------------------------------------------------------------------
BridgeTypeOK ==
  /\ file \in Content /\ owner \in {"vm", "root"}
  /\ tmp \in TmpFile \cup {NoFile}
  /\ cmd \in [Process -> Command]
  /\ posts \in [Id -> 0..MaxPosts] /\ replies \in [Id -> 0..MaxReplies]
  /\ accepted \in [Id -> SUBSET Response] /\ got \in [Id -> SUBSET (Response \cup {None})]
  /\ lost \in 0..MaxLost

(* Whatever a consumer is given for a request is a reply of the tutor to that  *)
(* very request, which answer stored: however many commands interleave,       *)
(* write over each other's temporary file, bring an old queue back or die.      *)
(* (It need not be the last reply, nor the one an earlier consumer was given.)  *)
ConsumedWasReplied == \A i \in Id : got[i] \subseteq accepted[i]
===============================================================================

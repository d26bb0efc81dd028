------------------------------ MODULE LanesProofs ------------------------------
(******************************************************************************)
(* Proofs about the lanes that hand work over to each other: the mission      *)
(* bridge, the sniper of the Molt market, the autonomy kernel, the            *)
(* reconciliation, the tested submission and the external actions.            *)
(******************************************************************************)
EXTENDS MCLanes, MissionsProofs, FiniteSetTheorems, SumTheorems, Integers, TLAPS

--------------------------------------------------------------------------------
(***************************************************************************)
(* Proofs about MissionBridge, for every set of requests, clients and       *)
(* replies, whatever commands overlap and whichever of them die.             *)
(***************************************************************************)

(* Every answer in a queue is a reply to its request that answer has stored.  *)
Sound(q) == q \in Queue /\ \A i \in Id : q[i].status \in {"answered", "consumed"} =>
                                           q[i].response \in accepted[i]
SoundText(t) == t \in {Empty, Overlaid} \/ Sound(t)

(* What a command has read, why it went on, and what its handle stands for.  *)
SoundCommand(c) ==
  /\ c \in Command /\ Sound(c.seen)
  /\ c.op # "none" => c.id \in Id
  /\ c.op = "mark" => c.seen[c.id].status \in {"pending_publish", "published"}
  /\ c.op \in {"answer", "consume"} => c.reply \in accepted[c.id]

TextsSound ==
  /\ SoundText(file) /\ owner \in {"vm", "root"}
  /\ tmp = NoFile \/ (tmp \in TmpFile /\ SoundText(tmp.content))
  /\ tmp = NoFile => \A p \in Process : cmd[p].handle # "tmp"
CommandsSound == cmd \in [Process -> Command] /\ \A p \in Process : SoundCommand(cmd[p])
BoundsKept   == posts \in [Id -> 0..MaxPosts] /\ replies \in [Id -> 0..MaxReplies] /\ lost \in 0..MaxLost
AnswersStored     ==
  /\ accepted \in [Id -> SUBSET Response] /\ got \in [Id -> SUBSET (Response \cup {None})]
  /\ \A i \in Id : got[i] \subseteq accepted[i]

BridgeInv == TextsSound /\ CommandsSound /\ BoundsKept /\ AnswersStored

LEMMA BlankSound == Sound(Blank)
  BY DEF Sound, Blank, Absent, Queue, Record

LEMMA IdleSound == SoundCommand(Idle) /\ Idle.op = "none" /\ Idle.handle = "none"
<1>1. Idle.seen = Blank /\ Idle.op = "none" /\ Idle.handle = "none"
  BY DEF Idle
<1>2. Idle \in Command
  BY BlankSound DEF Idle, Command, Sound, Saving
<1> QED
  BY <1>1, <1>2, BlankSound DEF SoundCommand

(* More answers stored: what was sound stays so.                             *)
LEMMA SoundKept ==
  ASSUME \A i \in Id : accepted[i] \subseteq accepted'[i]
  PROVE  /\ \A q : Sound(q) => Sound(q)'
         /\ \A t : SoundText(t) => SoundText(t)'
         /\ \A c : SoundCommand(c) => SoundCommand(c)'
<1>1. \A q : Sound(q) => Sound(q)'
  BY DEF Sound
<1>2. \A t : SoundText(t) => SoundText(t)'
  BY <1>1 DEF SoundText
<1>3. \A c : SoundCommand(c) => SoundCommand(c)'
  BY <1>1 DEF SoundCommand
<1> QED
  BY <1>1, <1>2, <1>3

(* What load() returns is sound, torn file or not.                           *)
LEMMA LoadedSound == ASSUME BridgeInv PROVE Sound(Loaded) /\ Loaded \in Queue
<1>1. CASE file \in Queue
  <2>1. Sound(file)
    BY <1>1, ContentAssumption DEF BridgeInv, TextsSound, SoundText
  <2> QED
    BY <1>1, <2>1 DEF Loaded
<1>2. CASE file \notin Queue
  BY <1>2, BlankSound DEF Loaded, Sound
<1> QED
  BY <1>1, <1>2

(* One command changes, the others are as they were.                         *)
LEMMA CommandChanges ==
  ASSUME BridgeInv, NEW p \in Process, NEW c, SoundCommand(c), c.handle = "none",
         cmd' = [cmd EXCEPT ![p] = c], UNCHANGED <<file, owner, tmp, accepted>>
  PROVE  TextsSound' /\ CommandsSound'
<1>1. c \in Command
  BY DEF SoundCommand
<1>2. cmd' \in [Process -> Command]
  BY <1>1 DEF BridgeInv, CommandsSound
<1>3. \A q \in Process : cmd'[q] = IF q = p THEN c ELSE cmd[q]
  BY DEF BridgeInv, CommandsSound
<1>4. \A q \in Process : SoundCommand(cmd'[q])
  BY <1>3 DEF BridgeInv, CommandsSound
<1>5. \A x : SoundCommand(x) => SoundCommand(x)'
  BY SoundKept
<1>6. TextsSound'
  BY <1>3 DEF BridgeInv, TextsSound, SoundText, Sound
<1> QED
  BY <1>2, <1>4, <1>5, <1>6 DEF CommandsSound

(* A command that starts has read a sound queue.                             *)
LEMMA EnterSound ==
  ASSUME BridgeInv, NEW op \in Saving \cup {"post"}, NEW i \in Id,
         NEW r \in Response \cup {None},
         op = "mark" => Loaded[i].status \in {"pending_publish", "published"},
         op \in {"answer", "consume"} => r \in accepted[i]
  PROVE  SoundCommand(Reading(op, i, r)) /\ Reading(op, i, r).handle = "none"
<1> DEFINE c == Reading(op, i, r)
<1>1. Sound(Loaded) /\ Loaded \in Queue
  BY LoadedSound
<1>2. c = [op |-> op, id |-> i, reply |-> r, seen |-> Loaded,
           stage |-> "loaded", handle |-> "none"]
  BY DEF Reading
<1>3. c \in Command
  BY <1>1, <1>2 DEF Command
<1>4. c.op = op /\ c.id = i /\ c.reply = r /\ c.seen = Loaded /\ c.handle = "none"
  BY <1>2
<1> HIDE DEF c
<1>5. SoundCommand(c)
  BY <1>1, <1>3, <1>4 DEF SoundCommand
<1> QED
  BY <1>4, <1>5 DEF c

LEMMA EnterNext ==
  ASSUME BridgeInv, NEW p \in Process, NEW op \in Saving \cup {"post"}, NEW i \in Id,
         NEW r \in Response \cup {None}, Enter(p, op, i, r),
         op = "mark" => Loaded[i].status \in {"pending_publish", "published"},
         op \in {"answer", "consume"} => r \in accepted[i],
         UNCHANGED <<file, owner, tmp, accepted>>
  PROVE  TextsSound' /\ CommandsSound'
  BY EnterSound, CommandChanges DEF Enter

LEMMA ExitNext ==
  ASSUME BridgeInv, NEW p \in Process, Exit(p), UNCHANGED <<file, owner, tmp, accepted>>
  PROVE  TextsSound' /\ CommandsSound'
  BY IdleSound, CommandChanges DEF Exit

(* The answer in a consumed or answered record is one that was stored.       *)
LEMMA LoadedAnswer ==
  ASSUME BridgeInv, NEW i \in Id, Loaded[i].status \in {"answered", "consumed"}
  PROVE  Loaded[i].response \in accepted[i] /\ Loaded[i].response \in Response
<1>1. Sound(Loaded)
  BY LoadedSound
<1>2. Loaded[i].response \in accepted[i]
  BY <1>1 DEF Sound
<1> QED
  BY <1>2 DEF BridgeInv, AnswersStored

(* The commands up to their save.                                            *)
LEMMA BridgeClientNext ==
  ASSUME BridgeInv, NEW p \in Client, NEW i \in Id,
         Request(p, i) \/ Consume(p, i) \/ ConsumeAgain(p, i)
  PROVE  BridgeInv'
<1>p. p \in Process
  BY DEF Process
<1>1. CASE Request(p, i)
  <2>1. TextsSound' /\ CommandsSound'
    BY <1>p, <1>1, EnterNext DEF Request, Saving
  <2> QED
    BY <1>1, <2>1 DEF Request, BridgeInv, BoundsKept, AnswersStored
<1>2. CASE Consume(p, i)
  <2>1. Loaded[i].response \in accepted[i] /\ Loaded[i].response \in Response
    BY <1>2, LoadedAnswer DEF Consume
  <2>2. TextsSound' /\ CommandsSound'
    BY <1>p, <1>2, <2>1, EnterNext DEF Consume, Saving
  <2> QED
    BY <1>2, <2>2 DEF Consume, BridgeInv, BoundsKept, AnswersStored
<1>3. CASE ConsumeAgain(p, i)
  <2> DEFINE answer == Loaded[i].response
  <2>1. answer \in accepted[i] /\ answer \in Response
    BY <1>3, LoadedAnswer DEF ConsumeAgain
  <2>2. got' = [got EXCEPT ![i] = @ \cup {answer}]
    BY <1>3 DEF ConsumeAgain
  <2>3. UNCHANGED <<file, owner, tmp, cmd, posts, replies, accepted, lost>>
    BY <1>3 DEF ConsumeAgain
  <2> HIDE DEF answer
  <2>4. AnswersStored'
    BY <2>1, <2>2, <2>3 DEF BridgeInv, AnswersStored
  <2> QED
    BY <2>3, <2>4 DEF BridgeInv, TextsSound, SoundText, SoundCommand, Sound, CommandsSound, BoundsKept
<1> QED
  BY <1>1, <1>2, <1>3

LEMMA BridgeWorkflowNext ==
  ASSUME BridgeInv, Post \/ MarkPublished \/ \E i \in Id : Pending(i)
  PROVE  BridgeInv'
<1> DEFINE w == cmd[Workflow]
<1>w. Workflow \in Process /\ w \in Command /\ SoundCommand(w)
  BY DEF Process, BridgeInv, CommandsSound
<1>1. ASSUME NEW i \in Id, Pending(i) PROVE BridgeInv'
  <2>1. TextsSound' /\ CommandsSound'
    BY <1>w, <1>1, EnterNext DEF Pending, Saving
  <2> QED
    BY <1>1, <2>1 DEF Pending, BridgeInv, BoundsKept, AnswersStored
<1>2. CASE MarkPublished
  <2>1. w.id \in Id
    BY <1>2, <1>w DEF MarkPublished, SoundCommand
  <2>2. CASE Loaded[w.id].status \in {"pending_publish", "published"}
    <3>1. TextsSound' /\ CommandsSound'
      BY <1>w, <1>2, <2>1, <2>2, EnterNext DEF MarkPublished, Saving
    <3> QED
      BY <1>2, <3>1 DEF MarkPublished, BridgeInv, BoundsKept, AnswersStored
  <2>3. CASE Loaded[w.id].status \notin {"pending_publish", "published"}
    <3>1. TextsSound' /\ CommandsSound'
      BY <1>w, <1>2, <2>3, ExitNext DEF MarkPublished
    <3> QED
      BY <1>2, <3>1 DEF MarkPublished, BridgeInv, BoundsKept, AnswersStored
  <2> QED
    BY <2>2, <2>3
<1>3. CASE Post
  <2>1. w.id \in Id /\ w.op = "post"
    BY <1>3, <1>w DEF Post, SoundCommand
  <2>2. posts[w.id] + 1 \in 0..MaxPosts
    BY <1>3, <2>1, BridgeAssumption DEF Post, BridgeInv, BoundsKept
  <2>3. posts' \in [Id -> 0..MaxPosts]
    BY <1>3, <2>1, <2>2 DEF Post, BridgeInv, BoundsKept
  <2> DEFINE c == [w EXCEPT !.op = "posted"]
  <2>4. cmd' = [cmd EXCEPT ![Workflow] = c]
    BY <1>3, <1>w DEF Post, BridgeInv, CommandsSound
  <2>5. SoundCommand(c)
    BY <1>w, <2>1 DEF SoundCommand, Command
  <2>6. c \in Command /\ c.handle = w.handle
    BY <1>w, <2>5 DEF SoundCommand, Command
  <2> HIDE DEF c
  <2>7. \A q \in Process : cmd'[q] = IF q = Workflow THEN c ELSE cmd[q]
    BY <2>4 DEF BridgeInv, CommandsSound
  <2>8. UNCHANGED <<file, owner, tmp, replies, accepted, got, lost>>
    BY <1>3 DEF Post
  <2>9. CommandsSound'
    <3>1. cmd' \in [Process -> Command]
      BY <2>4, <2>6 DEF BridgeInv, CommandsSound
    <3>2. \A q \in Process : SoundCommand(cmd'[q])
      BY <2>5, <2>7 DEF BridgeInv, CommandsSound
    <3>3. \A x : SoundCommand(x) => SoundCommand(x)'
      BY <2>8, SoundKept
    <3> QED
      BY <3>1, <3>2, <3>3 DEF CommandsSound
  <2>10. TextsSound'
    BY <2>6, <2>7, <2>8 DEF BridgeInv, TextsSound, SoundText, Sound
  <2> QED
    BY <2>3, <2>8, <2>9, <2>10 DEF BridgeInv, BoundsKept, AnswersStored
<1> QED
  BY <1>1, <1>2, <1>3

(* An answer is stored: what was sound stays so.                             *)
LEMMA AnswerNext ==
  ASSUME BridgeInv, NEW i \in Id, NEW r \in Response, Answer(i, r)
  PROVE  BridgeInv'
<1>1. replies' \in [Id -> 0..MaxReplies]
  <2>1. replies[i] + 1 \in 0..MaxReplies
    BY BridgeAssumption DEF Answer, BridgeInv, BoundsKept
  <2> QED
    BY <2>1 DEF Answer, BridgeInv, BoundsKept
<1>u. UNCHANGED <<file, owner, tmp, posts, got, lost>>
  BY DEF Answer
<1>2. CASE Loaded[i].status \in {"absent", "consumed"}
  <2>1. UNCHANGED <<cmd, accepted>>
    BY <1>2 DEF Answer
  <2> QED
    BY <1>1, <1>u, <2>1
    DEF BridgeInv, TextsSound, SoundText, SoundCommand, Sound, CommandsSound, BoundsKept, AnswersStored
<1>3. CASE Loaded[i].status \notin {"absent", "consumed"}
  <2> DEFINE c == Reading("answer", i, r)
  <2>1. cmd' = [cmd EXCEPT ![Workflow] = c] /\ accepted' = [accepted EXCEPT ![i] = @ \cup {r}]
    BY <1>3 DEF Answer, Enter
  <2>w. Workflow \in Process
    BY DEF Process
  <2>2. /\ accepted' \in [Id -> SUBSET Response] /\ r \in accepted'[i]
        /\ \A j \in Id : accepted[j] \subseteq accepted'[j]
    BY <2>1 DEF BridgeInv, AnswersStored
  <2>3. /\ \A t : SoundText(t) => SoundText(t)'
        /\ \A x : SoundCommand(x) => SoundCommand(x)'
        /\ Sound(Loaded) => Loaded \in Queue /\ \A j \in Id :
             Loaded[j].status \in {"answered", "consumed"} => Loaded[j].response \in accepted'[j]
    BY <2>2, SoundKept DEF Sound
  <2>4. Sound(Loaded) /\ Loaded \in Queue
    BY LoadedSound
  <2>5. c = [op |-> "answer", id |-> i, reply |-> r, seen |-> Loaded,
             stage |-> "loaded", handle |-> "none"]
    BY DEF Reading
  <2>6. c \in Command /\ c.handle = "none"
    BY <2>4, <2>5 DEF Command, Saving
  <2>7. c.seen = Loaded /\ c.op = "answer" /\ c.id = i /\ c.reply = r
    BY <2>5
  <2> HIDE DEF c
  <2>8. \A q \in Process : cmd'[q] = IF q = Workflow THEN c ELSE cmd[q]
    BY <2>1 DEF BridgeInv, CommandsSound
  <2>9. CommandsSound'
    <3>1. cmd' \in [Process -> Command]
      BY <2>1, <2>6 DEF BridgeInv, CommandsSound
    <3>2. ASSUME NEW x, x = c PROVE SoundCommand(x)'
      BY <2>2, <2>3, <2>4, <2>6, <2>7, <3>2 DEF SoundCommand, Sound
    <3>3. \A q \in Process : q # Workflow => SoundCommand(cmd[q])
      BY DEF BridgeInv, CommandsSound
    <3>4. \A q \in Process : \A x : x = cmd'[q] => SoundCommand(x)'
      BY <2>3, <2>8, <3>2, <3>3
    <3> QED
      BY <3>1, <3>4 DEF CommandsSound
  <2>10. TextsSound'
    BY <1>u, <2>3, <2>6, <2>8 DEF BridgeInv, TextsSound, SoundText, Sound
  <2>11. AnswersStored'
    BY <1>u, <2>2 DEF BridgeInv, AnswersStored
  <2> QED
    BY <1>1, <1>u, <2>9, <2>10, <2>11 DEF BridgeInv, BoundsKept
<1> QED
  BY <1>2, <1>3

(* The queue a command writes is sound.                                      *)
LEMMA CopySound ==
  ASSUME BridgeInv, NEW p \in Process, cmd[p].op \in Saving
  PROVE  Sound(Copy(cmd[p]))
<1> DEFINE c == cmd[p]
<1>1. c \in Command /\ SoundCommand(c) /\ Sound(c.seen) /\ c.id \in Id
  BY DEF BridgeInv, CommandsSound, SoundCommand, Saving
<1>2. /\ Updated(c) \in Record
      /\ Updated(c).status \in {"answered", "consumed"} => Updated(c).response \in accepted[c.id]
  <2>1. CASE c.op = "request"
    BY <2>1 DEF Updated, Record
  <2>2. CASE c.op = "mark"
    <3>1. c.seen[c.id] \in Record /\ c.seen[c.id].status \in {"pending_publish", "published"}
      BY <1>1, <2>2 DEF SoundCommand, Sound, Queue
    <3>2. Updated(c) = [c.seen[c.id] EXCEPT !.status = "published"]
      BY <2>2 DEF Updated
    <3> QED
      BY <3>1, <3>2 DEF Record
  <2>3. CASE c.op = "answer"
    <3>1. Updated(c) = [status |-> "answered", response |-> c.reply]
      BY <2>3 DEF Updated
    <3>2. c.reply \in accepted[c.id] /\ c.reply \in Response
      BY <1>1, <2>3 DEF SoundCommand, BridgeInv, AnswersStored
    <3> QED
      BY <3>1, <3>2 DEF Record
  <2>4. CASE c.op = "consume"
    <3>1. Updated(c) = [status |-> "consumed", response |-> c.reply]
      BY <2>4 DEF Updated
    <3>2. c.reply \in accepted[c.id] /\ c.reply \in Response
      BY <1>1, <2>4 DEF SoundCommand, BridgeInv, AnswersStored
    <3> QED
      BY <3>1, <3>2 DEF Record
  <2> QED
    BY <2>1, <2>2, <2>3, <2>4 DEF Saving
<1> HIDE DEF c
<1>3. Copy(c) = [c.seen EXCEPT ![c.id] = Updated(c)]
  BY DEF Copy
<1>4. Sound(Copy(c))
  BY <1>1, <1>2, <1>3 DEF Sound, Queue
<1> QED
  BY <1>4 DEF c

(* One command goes a step further in its save.                              *)
LEMMA SaveStep ==
  ASSUME BridgeInv, NEW p \in Process, NEW st \in {"opened", "written"},
         NEW h \in {"none", "tmp"},
         cmd' = [cmd EXCEPT ![p].stage = st, ![p].handle = h], UNCHANGED accepted
  PROVE  CommandsSound' /\ \A q \in Process : cmd'[q].handle \in {cmd[q].handle, h}
<1> DEFINE c == [cmd[p] EXCEPT !.stage = st, !.handle = h]
<1>1. cmd' = [cmd EXCEPT ![p] = c]
  BY DEF BridgeInv, CommandsSound
<1>2. SoundCommand(c) /\ c \in Command /\ c.handle = h
  BY DEF BridgeInv, CommandsSound, SoundCommand, Command
<1> HIDE DEF c
<1>3. \A q \in Process : cmd'[q] = IF q = p THEN c ELSE cmd[q]
  BY <1>1 DEF BridgeInv, CommandsSound
<1>4. cmd' \in [Process -> Command]
  BY <1>1, <1>2 DEF BridgeInv, CommandsSound
<1>5. \A q \in Process : SoundCommand(cmd'[q])
  BY <1>2, <1>3 DEF BridgeInv, CommandsSound
<1> QED
  BY <1>2, <1>3, <1>4, <1>5 DEF CommandsSound, SoundCommand, Sound

LEMMA OpenTmpNext ==
  ASSUME BridgeInv, NEW p \in Process, OpenTmp(p)
  PROVE  BridgeInv'
<1>1. CommandsSound'
  BY SaveStep DEF OpenTmp
<1>2. UNCHANGED <<file, owner, posts, replies, accepted, got, lost>>
  BY DEF OpenTmp
<1>3. tmp' \in TmpFile /\ tmp'.content = Empty
  BY DEF OpenTmp, TmpFile, Content, User, BridgeInv, TextsSound
<1>4. TextsSound'
  BY <1>2, <1>3, ContentAssumption DEF BridgeInv, TextsSound, SoundText, Sound
<1> QED
  BY <1>1, <1>2, <1>4 DEF BridgeInv, BoundsKept, AnswersStored

LEMMA WriteTmpNext ==
  ASSUME BridgeInv, NEW p \in Process, WriteTmp(p)
  PROVE  BridgeInv'
<1> DEFINE copy == Copy(cmd[p])
<1>1. Sound(copy)
  BY CopySound DEF WriteTmp
<1>2. CommandsSound' /\ \A q \in Process : cmd'[q].handle \in {cmd[q].handle, "none"}
  BY SaveStep DEF WriteTmp
<1>3. UNCHANGED <<owner, posts, replies, accepted, got, lost>>
  BY DEF WriteTmp
<1>4. \A old : \A t \in Texts(old, copy) : SoundText(t) /\ t \in Content
  BY <1>1 DEF Texts, SoundText, Sound, Content
<1>5. \/ cmd[p].handle = "tmp" /\ UNCHANGED file /\ \E t \in Texts(tmp.content, copy) :
                                                      tmp' = [tmp EXCEPT !.content = t]
      \/ file' \in Texts(file, copy) /\ UNCHANGED tmp
      \/ UNCHANGED <<file, tmp>>
  BY DEF WriteTmp
<1> HIDE DEF copy
<1>6. CASE cmd[p].handle = "tmp" /\ UNCHANGED file /\ \E t \in Texts(tmp.content, copy) :
                                                       tmp' = [tmp EXCEPT !.content = t]
  <2>1. tmp \in TmpFile
    BY <1>6 DEF BridgeInv, TextsSound
  <2>2. PICK t \in Texts(tmp.content, copy) : tmp' = [tmp EXCEPT !.content = t]
    BY <1>6
  <2>3. SoundText(t) /\ t \in Content
    BY <1>4
  <2>4. tmp' \in TmpFile /\ tmp'.content = t
    BY <2>1, <2>2, <2>3 DEF TmpFile
  <2>5. SoundText(t)'
    BY <1>3, <2>3 DEF SoundText, Sound
  <2>6. TextsSound'
    BY <1>3, <1>6, <2>4, <2>5, ContentAssumption DEF BridgeInv, TextsSound, SoundText, Sound
  <2> QED
    BY <1>2, <1>3, <2>6 DEF BridgeInv, BoundsKept, AnswersStored
<1>7. CASE file' \in Texts(file, copy) /\ UNCHANGED tmp
  <2>1. SoundText(file')
    BY <1>4, <1>7
  <2>2. TextsSound'
    BY <1>2, <1>3, <1>7, <2>1 DEF BridgeInv, TextsSound, SoundText, Sound
  <2> QED
    BY <1>2, <1>3, <2>2 DEF BridgeInv, BoundsKept, AnswersStored
<1>8. CASE UNCHANGED <<file, tmp>>
  <2>1. TextsSound'
    BY <1>2, <1>3, <1>8 DEF BridgeInv, TextsSound, SoundText, Sound
  <2> QED
    BY <1>2, <1>3, <2>1 DEF BridgeInv, BoundsKept, AnswersStored
<1> QED
  BY <1>5, <1>6, <1>7, <1>8

LEMMA ReplaceStateNext ==
  ASSUME BridgeInv, NEW p \in Process, ReplaceState(p)
  PROVE  BridgeInv'
<1>1. UNCHANGED <<posts, replies, accepted, lost>>
  BY DEF ReplaceState
<1>2. tmp \in TmpFile /\ SoundText(tmp.content)
  BY DEF ReplaceState, BridgeInv, TextsSound
<1>3. file' = tmp.content /\ owner' = tmp.owner /\ tmp' = NoFile
  BY DEF ReplaceState
<1>4. \A q \in Process : cmd'[q] = IF q = p THEN Idle ELSE [cmd[q] EXCEPT !.handle = Moved(@)]
  BY DEF ReplaceState
<1>5. ASSUME NEW q \in Process
      PROVE  SoundCommand(cmd'[q]) /\ cmd'[q].handle # "tmp"
  <2>1. CASE q = p
    BY <1>4, <2>1, IdleSound
  <2>2. CASE q # p
    <3> DEFINE h == Moved(cmd[q].handle)
    <3>1. cmd[q] \in Command /\ SoundCommand(cmd[q])
      BY DEF BridgeInv, CommandsSound
    <3>2. h \in {"none", "state", "unlinked"}
      BY <3>1 DEF Moved, Command
    <3> HIDE DEF h
    <3>3. cmd'[q] = [cmd[q] EXCEPT !.handle = h]
      BY <1>4, <2>2, <3>1 DEF h, Command
    <3> QED
      BY <3>1, <3>2, <3>3 DEF SoundCommand, Command
  <2> QED
    BY <2>1, <2>2
<1>6. CommandsSound'
  <2>1. cmd' = [q \in Process |-> cmd'[q]]
    BY DEF ReplaceState
  <2>2. \A q \in Process : cmd'[q] \in Command
    BY <1>5 DEF SoundCommand
  <2>3. cmd' \in [Process -> Command]
    BY <2>1, <2>2
  <2> QED
    BY <1>1, <1>5, <2>3 DEF CommandsSound, SoundCommand, Sound
<1>7. TextsSound'
  BY <1>1, <1>2, <1>3, <1>5 DEF TextsSound, SoundText, Sound, TmpFile
<1>8. AnswersStored'
  <2>1. CASE cmd[p].op = "consume"
    <3>1. SoundCommand(cmd[p]) /\ cmd[p].id \in Id /\ cmd[p].reply \in accepted[cmd[p].id]
      BY <2>1 DEF BridgeInv, CommandsSound, SoundCommand
    <3> DEFINE i == cmd[p].id
               r == cmd[p].reply
    <3>2. got' = [got EXCEPT ![i] = @ \cup {r}] /\ i \in Id /\ r \in accepted[i]
      BY <2>1, <3>1 DEF ReplaceState
    <3> HIDE DEF i, r
    <3> QED
      BY <1>1, <3>2 DEF BridgeInv, AnswersStored
  <2>2. CASE cmd[p].op # "consume"
    BY <1>1, <2>2 DEF ReplaceState, BridgeInv, AnswersStored
  <2> QED
    BY <2>1, <2>2
<1> QED
  BY <1>1, <1>6, <1>7, <1>8 DEF BridgeInv, BoundsKept

LEMMA RaiseNext ==
  ASSUME BridgeInv, NEW p \in Process, SaveRaises(p) \/ CommandLost(p)
  PROVE  BridgeInv'
<1>1. CASE SaveRaises(p)
  <2>1. TextsSound' /\ CommandsSound'
    BY <1>1, ExitNext DEF SaveRaises
  <2> QED
    BY <1>1, <2>1 DEF SaveRaises, BridgeInv, BoundsKept, AnswersStored
<1>2. CASE CommandLost(p)
  <2>1. TextsSound' /\ CommandsSound'
    BY <1>2, ExitNext DEF CommandLost
  <2>2. lost' \in 0..MaxLost
    BY <1>2, BridgeAssumption DEF CommandLost, BridgeInv, BoundsKept
  <2> QED
    BY <1>2, <2>1, <2>2 DEF CommandLost, BridgeInv, BoundsKept, AnswersStored
<1> QED
  BY <1>1, <1>2

LEMMA BridgeInvNext == BridgeInv /\ [BridgeNext]_bridge => BridgeInv'
<1>1. BridgeInv /\ UNCHANGED bridge => BridgeInv'
  BY DEF bridge, BridgeInv, TextsSound, SoundText, SoundCommand, Sound, CommandsSound, BoundsKept, AnswersStored
<1> QED
  BY <1>1, BridgeClientNext, BridgeWorkflowNext, AnswerNext, OpenTmpNext, WriteTmpNext, ReplaceStateNext, RaiseNext
  DEF BridgeNext

LEMMA BridgeInvInit == BridgeInit => BridgeInv
<1> SUFFICES ASSUME BridgeInit PROVE BridgeInv
  OBVIOUS
<1>1. cmd \in [Process -> Command] /\ \A p \in Process : cmd[p] = Idle
  BY IdleSound DEF BridgeInit, SoundCommand
<1>2. CommandsSound
  BY <1>1, IdleSound DEF CommandsSound
<1>3. TextsSound
  BY <1>1, IdleSound, BlankSound DEF BridgeInit, TextsSound, SoundText
<1>4. BoundsKept
  BY BridgeAssumption DEF BridgeInit, BoundsKept
<1>5. AnswersStored
  BY DEF BridgeInit, AnswersStored
<1> QED
  BY <1>2, <1>3, <1>4, <1>5 DEF BridgeInv

LEMMA BridgeInvariant == BridgeSpec => []BridgeInv
  BY BridgeInvInit, BridgeInvNext, PTL DEF BridgeSpec

(* The queue's files, the commands and what was posted keep their shape.      *)
THEOREM BridgeTypeCorrect == BridgeSpec => []BridgeTypeOK
<1>1. BridgeInv => BridgeTypeOK
  BY DEF BridgeInv, TextsSound, SoundText, Sound, CommandsSound, BoundsKept, AnswersStored, BridgeTypeOK, Content
<1> QED
  BY <1>1, BridgeInvariant, PTL

(* Whatever consumers are given for a request is a reply to it that answer has *)
(* stored, for any number of requests, clients and replies.                   *)
THEOREM ConsumedWasRepliedHolds == BridgeSpec => []ConsumedWasReplied
<1>1. BridgeInv => ConsumedWasReplied
  BY DEF BridgeInv, AnswersStored, ConsumedWasReplied
<1> QED
  BY <1>1, BridgeInvariant, PTL

--------------------------------------------------------------------------------
(***************************************************************************)
(* Proofs about MoltJobs, for every finite set of jobs and runs and every    *)
(* allowance, reserve and portfolio.                                        *)
(***************************************************************************)

(* The capacity of a run is a number: the least of some.                     *)
LEMMA LeastType ==
  ASSUME NEW a \in Nat, NEW b \in Nat, NEW c \in Nat, NEW d \in Nat
  PROVE  /\ Least({a, b, c, d}) \in Nat /\ Least({a, b, c}) \in Nat /\ Least({a, b}) \in Nat
<1>1. \E n \in {a, b, c, d} : \A k \in {a, b, c, d} : n <= k
  OBVIOUS
<1>2. \E n \in {a, b, c} : \A k \in {a, b, c} : n <= k
  OBVIOUS
<1>3. \E n \in {a, b} : \A k \in {a, b} : n <= k
  OBVIOUS
<1> QED
  BY <1>1, <1>2, <1>3 DEF Least

LEMMA CapacityType ==
  ASSUME MoltTypeOK, NEW r \in Run, NEW occupied \in Nat
  PROVE  Capacity(r, occupied) \in Nat
<1> DEFINE spare == Under(run[r].remaining, Reserve)
           wanted == Under(Target, occupied)
           room == Under(MaxPortfolio, occupied)
<1>1. spare \in Nat /\ wanted \in Nat /\ room \in Nat /\ MaxBids \in Nat
  BY MoltAssumption DEF MoltTypeOK, RunState, Under
<1>2. Least({MaxBids, spare, 1}) \in Nat /\ Least({MaxBids, spare, wanted, room}) \in Nat
  <2> HIDE DEF spare, wanted, room
  <2> QED
    BY <1>1, LeastType
<1> QED
  BY <1>2 DEF Capacity

(* A run's records keep their shape along its steps.                         *)
LEMMA GoesType ==
  ASSUME MoltTypeOK, NEW r \in Run, NEW s \in RunState, Goes(r, s)
  PROVE  run' \in [Run -> RunState]
  BY DEF MoltTypeOK, Goes

(* A bid uses up a slot, and leaves or enters what the run knows.            *)
LEMMA SlotType ==
  ASSUME NEW s \in RunState, s.capacity > 0, NEW j \in s.todo
  PROVE  /\ j \in Job
         /\ [s EXCEPT !.todo = @ \ {j}, !.capacity = @ - 1] \in RunState
         /\ [s EXCEPT !.bids = @ \cup {j}, !.todo = @ \ {j}, !.capacity = @ - 1] \in RunState
         /\ [s EXCEPT !.pc = "escalate", !.todo = @ \ {j}, !.capacity = @ - 1] \in RunState
<1>1. /\ j \in Job /\ s.capacity - 1 \in Nat
      /\ s.todo \ {j} \in SUBSET Job /\ s.bids \cup {j} \in SUBSET Job
  BY DEF RunState
<1> QED
  BY <1>1 DEF RunState, RunPC

LEMMA MoltTypeNext == MoltTypeOK /\ [MoltNext]_molt => MoltTypeOK'
<1> SUFFICES ASSUME MoltTypeOK, [MoltNext]_molt PROVE MoltTypeOK'
  OBVIOUS
<1>t. \A r \in Run : run[r] \in RunState
  BY DEF MoltTypeOK
<1>1. ASSUME NEW r \in Run, MoltStep(r) PROVE MoltTypeOK'
  <2>1. CASE LoadState(r)
    <3> DEFINE next == [run[r] EXCEPT !.pc = "loaded",
                                      !.bids = IF disk.torn THEN {} ELSE disk.bids]
    <3>1. next \in RunState
      BY <1>t DEF MoltTypeOK, RunState, RunPC
    <3> QED
      BY <2>1, <3>1, GoesType DEF LoadState, MoltTypeOK
  <2>2. CASE ReadAllowance(r)
    <3>1. [run[r] EXCEPT !.pc = "allowed", !.remaining = credits] \in RunState
      BY <1>t DEF MoltTypeOK, RunState, RunPC
    <3> QED
      BY <2>2, <3>1, GoesType DEF ReadAllowance, MoltTypeOK
  <2>3. CASE ListJobs(r)
    <3> DEFINE open == {j \in Job : market[j] = "open"}
    <3>1. open \in SUBSET Job
      OBVIOUS
    <3>2. [run[r] EXCEPT !.pc = "listed", !.listed = open] \in RunState
      <4> HIDE DEF open
      <4> QED
        BY <1>t, <3>1 DEF RunState, RunPC
    <3> QED
      BY <2>3, <3>2, GoesType DEF ListJobs, MoltTypeOK
  <2>4. CASE Snapshot(r)
    <3>1. PICK mine \in {{}, {j \in Job : market[j] \in {"assigned", "done"} /\ placed[j] > 0}} :
            LET active   == {j \in mine : market[j] = "assigned"}
                recent   == RecentBids(r, mine)
                occupied == Least({MaxPortfolio, Cardinality(active) + Cardinality(recent)})
            IN Goes(r, [run[r] EXCEPT !.pc = "deliver", !.capacity = Capacity(r, occupied)])
      BY <2>4 DEF Snapshot
    <3> DEFINE active   == {j \in mine : market[j] = "assigned"}
               recent   == RecentBids(r, mine)
               occupied == Least({MaxPortfolio, Cardinality(active) + Cardinality(recent)})
    <3>2. IsFiniteSet(active) /\ IsFiniteSet(recent)
      <4>1. active \subseteq Job /\ recent \subseteq Job
        BY <1>t DEF RecentBids, RunState
      <4> QED
        BY <4>1, MoltAssumption, FS_Subset
    <3>3. Cardinality(active) \in Nat /\ Cardinality(recent) \in Nat
      BY <3>2, FS_CardinalityType
    <3>4. occupied \in Nat
      <4> HIDE DEF active, recent
      <4>1. Cardinality(active) + Cardinality(recent) \in Nat
        BY <3>3
      <4> QED
        BY <4>1, LeastType, MoltAssumption
    <3> HIDE DEF occupied
    <3>5. [run[r] EXCEPT !.pc = "deliver", !.capacity = Capacity(r, occupied)] \in RunState
      BY <1>t, <3>4, CapacityType DEF RunState, RunPC
    <3>6. Goes(r, [run[r] EXCEPT !.pc = "deliver", !.capacity = Capacity(r, occupied)])
      BY <3>1 DEF occupied
    <3> QED
      BY <2>4, <3>5, <3>6, GoesType DEF Snapshot, MoltTypeOK
  <2>5. CASE Ranked(r)
    <3>1. [run[r] EXCEPT !.pc = "bid", !.todo = run[r].listed \ run[r].bids] \in RunState
      BY <1>t DEF RunState, RunPC
    <3> QED
      BY <2>5, <3>1, GoesType DEF Ranked, MoltTypeOK
  <2>6. CASE BidPlaced(r)
    <3>1. PICK j \in run[r].todo :
            /\ Market(r, j, TRUE)
            /\ Goes(r, [run[r] EXCEPT !.bids = @ \cup {j}, !.todo = @ \ {j}, !.capacity = @ - 1])
      BY <2>6 DEF BidPlaced
    <3>2. run[r].capacity > 0
      BY <2>6 DEF BidPlaced
    <3>3. /\ j \in Job
          /\ [run[r] EXCEPT !.bids = @ \cup {j}, !.todo = @ \ {j}, !.capacity = @ - 1] \in RunState
      BY <1>t, <3>2, SlotType
    <3>4. credits' \in Nat /\ placed' \in [Job -> Nat]
      BY <3>1, <3>3 DEF Market, MoltTypeOK
    <3> QED
      BY <2>6, <3>1, <3>3, <3>4, GoesType DEF BidPlaced, MoltTypeOK
  <2>7. CASE BidRefused(r)
    <3>1. PICK j \in run[r].todo :
            Goes(r, [run[r] EXCEPT !.todo = @ \ {j}, !.capacity = @ - 1])
      BY <2>7 DEF BidRefused
    <3>2. [run[r] EXCEPT !.todo = @ \ {j}, !.capacity = @ - 1] \in RunState
      <4>1. run[r].capacity > 0
        BY <2>7 DEF BidRefused
      <4> QED
        BY <1>t, <4>1, SlotType
    <3> QED
      BY <2>7, <3>1, <3>2, GoesType DEF BidRefused, MoltTypeOK
  <2>8. CASE BidFailed(r)
    <3>1. PICK j \in run[r].todo, taken \in BOOLEAN :
            /\ Market(r, j, taken)
            /\ forgotten' = (forgotten \/ taken)
            /\ \/ Goes(r, [run[r] EXCEPT !.pc = "escalate", !.todo = @ \ {j}, !.capacity = @ - 1])
               \/ Goes(r, [run[r] EXCEPT !.pc = "save"])
      BY <2>8 DEF BidFailed
    <3>2. /\ [run[r] EXCEPT !.pc = "escalate", !.todo = @ \ {j}, !.capacity = @ - 1] \in RunState
          /\ [run[r] EXCEPT !.pc = "save"] \in RunState
      <4>1. run[r].capacity > 0
        BY <2>8 DEF BidFailed
      <4>2. [run[r] EXCEPT !.pc = "save"] \in RunState
        BY <1>t DEF RunState, RunPC
      <4> QED
        BY <1>t, <4>1, <4>2, SlotType
    <3>3. run' \in [Run -> RunState]
      BY <3>1, <3>2, GoesType
    <3>4. credits' \in Nat /\ placed' \in [Job -> Nat] /\ forgotten' \in BOOLEAN
      <4>1. j \in Job
        BY <1>t DEF RunState
      <4> QED
        BY <3>1, <4>1 DEF Market, MoltTypeOK
    <3> QED
      BY <2>8, <3>3, <3>4 DEF BidFailed, MoltTypeOK
  <2>9. CASE EscalateBid(r)
    <3>1. [run[r] EXCEPT !.pc = "bid"] \in RunState
      BY <1>t DEF RunState, RunPC
    <3> QED
      BY <2>9, <3>1, GoesType DEF EscalateBid, MoltTypeOK
  <2>10. CASE BidsDone(r)
    <3>1. [run[r] EXCEPT !.pc = "save"] \in RunState
      BY <1>t DEF RunState, RunPC
    <3> QED
      BY <2>10, <3>1, GoesType DEF BidsDone, MoltTypeOK
  <2>11. CASE SaveState(r) \/ SaveTorn(r) \/ RunLost(r)
    <3>1. Over(r) \in RunState
      BY <1>t DEF Over, RunState, RunPC
    <3>2. run' \in [Run -> RunState]
      BY <2>11, <3>1, GoesType DEF SaveState, SaveTorn, RunLost
    <3>3. disk' \in [bids : SUBSET Job, torn : BOOLEAN]
      <4>1. run[r].bids \in SUBSET Job
        BY <1>t DEF RunState
      <4>2. CASE SaveState(r)
        BY <4>1, <4>2 DEF SaveState
      <4>3. CASE SaveTorn(r)
        BY <4>3 DEF SaveTorn
      <4>4. CASE RunLost(r)
        BY <4>4 DEF RunLost, MoltTypeOK
      <4> QED
        BY <2>11, <4>2, <4>3, <4>4
    <3>4. forgotten' \in BOOLEAN
      BY <2>11 DEF SaveState, SaveTorn, RunLost, MoltTypeOK
    <3>5. UNCHANGED <<market, credits, placed, overlap>>
      BY <2>11 DEF SaveState, SaveTorn, RunLost
    <3> QED
      BY <3>2, <3>3, <3>4, <3>5 DEF MoltTypeOK
  <2> QED
    BY <1>1, <2>1, <2>2, <2>3, <2>4, <2>5, <2>6, <2>7, <2>8, <2>9, <2>10, <2>11 DEF MoltStep
<1>2. ASSUME NEW j \in Job, MarketMoves(j) PROVE MoltTypeOK'
  BY <1>2 DEF MarketMoves, MoltTypeOK, Markets
<1>3. CASE UNCHANGED molt
  BY <1>3 DEF molt, MoltTypeOK
<1> QED
  BY <1>1, <1>2, <1>3 DEF MoltNext

LEMMA MoltTypeInit == MoltInit => MoltTypeOK
<1> SUFFICES ASSUME MoltInit PROVE MoltTypeOK
  OBVIOUS
<1> DEFINE start == [pc |-> "off", bids |-> {}, remaining |-> 0, todo |-> {},
                     listed |-> {}, capacity |-> 0]
<1>1. start \in RunState
  BY DEF RunState, RunPC
<1>2. run = [r \in Run |-> start]
  BY DEF MoltInit
<1>3. credits \in Nat
  BY MoltAssumption DEF MoltInit
<1> HIDE DEF start
<1> QED
  BY <1>1, <1>2, <1>3 DEF MoltInit, MoltTypeOK, Markets

(* The market, the state file and the runs keep their shape.                 *)
THEOREM MoltTypeCorrect == MoltSpec => []MoltTypeOK
<1>1. MoltTypeOK /\ [MoltNext]_molt => MoltTypeOK'
  BY MoltTypeNext
<1> QED
  BY <1>1, MoltTypeInit, PTL DEF MoltSpec

-------------------------------------------------------------------------------
Live(r) == run[r].pc \notin {"off", "over"}

(* While no runs have overlapped and no bid was forgotten, the only run under  *)
(* way knows every bid that the market has taken beside those of the file.     *)
Remembered ==
  ~overlap /\ ~forgotten =>
    /\ ~disk.torn
    /\ \A q, r \in Run : Live(q) /\ Live(r) => q = r
    /\ \A r \in Run : Live(r) => disk.bids \subseteq run[r].bids
    /\ \A r \in Run : run[r].pc \in {"bid", "escalate"} => run[r].todo \cap run[r].bids = {}
    /\ \A j \in Job : placed[j] > 0 =>
         j \in disk.bids \/ \E r \in Run : Live(r) /\ j \in run[r].bids
    /\ \A j \in Job : placed[j] <= 1

LEMMA RememberedNext == MoltTypeOK /\ Remembered /\ [MoltNext]_molt => Remembered'
<1> SUFFICES ASSUME MoltTypeOK, Remembered, [MoltNext]_molt, ~overlap', ~forgotten'
             PROVE  Remembered'
  BY DEF Remembered
<1>t. /\ \A r \in Run : run[r] \in RunState
      /\ run \in [Run -> RunState] /\ placed \in [Job -> Nat]
  BY DEF MoltTypeOK
<1>0. ~overlap /\ ~forgotten
  BY DEF MoltNext, MoltStep, LoadState, ReadAllowance, ListJobs, Snapshot, Ranked, BidPlaced,
         BidRefused, BidFailed, EscalateBid, BidsDone, SaveState, SaveTorn, RunLost,
         MarketMoves, molt, MoltTypeOK
<1>1. ASSUME NEW r \in Run, LoadState(r) PROVE Remembered'
  <2>1. \A q \in Run : ~Live(q)
    BY <1>1 DEF LoadState, Active, Live
  <2>2. /\ run'[r].bids = disk.bids /\ run'[r].pc = "loaded"
        /\ \A q \in Run \ {r} : run'[q] = run[q]
    BY <1>0, <1>1, <1>t DEF LoadState, Goes, Remembered, RunState
  <2>3. UNCHANGED <<placed, disk>>
    BY <1>1 DEF LoadState
  <2> QED
    BY <1>0, <2>1, <2>2, <2>3 DEF Remembered, Live
(* A step of one run that changes neither what is taken nor what is known.     *)
<1>2. ASSUME NEW r \in Run, Live(r), UNCHANGED <<placed, disk>>,
             run'[r].bids = run[r].bids, run'[r].pc \notin {"off", "over"},
             run'[r].pc \in {"bid", "escalate"} => run'[r].todo \cap run'[r].bids = {},
             \A q \in Run \ {r} : run'[q] = run[q]
      PROVE  Remembered'
  <2>1. \A q \in Run : Live(q)' <=> Live(q)
    BY <1>2 DEF Live
  <2>2. \A q \in Run : run'[q].bids = run[q].bids
    BY <1>2
  <2> QED
    BY <1>0, <1>2, <2>1, <2>2 DEF Remembered
<1>3. ASSUME NEW r \in Run,
             \/ ReadAllowance(r) \/ ListJobs(r) \/ Snapshot(r) \/ Ranked(r)
             \/ EscalateBid(r) \/ BidsDone(r)
      PROVE  Remembered'
  <2>1. Live(r) /\ UNCHANGED <<placed, disk>>
    BY <1>3 DEF ReadAllowance, ListJobs, Snapshot, Ranked, EscalateBid, BidsDone, Live
  <2>2. /\ run'[r].bids = run[r].bids /\ run'[r].pc \notin {"off", "over"}
        /\ \A q \in Run \ {r} : run'[q] = run[q]
    <3>1. CASE ReadAllowance(r) \/ ListJobs(r) \/ Ranked(r)
      BY <3>1, <1>t DEF ReadAllowance, ListJobs, Ranked, Goes, RunState
    <3>2. CASE Snapshot(r)
      BY <3>2, <1>t DEF Snapshot, Goes, RunState
    <3>3. CASE EscalateBid(r) \/ BidsDone(r)
      BY <3>3, <1>t DEF EscalateBid, BidsDone, Goes, RunState
    <3> QED
      BY <1>3, <3>1, <3>2, <3>3
  <2>3. run'[r].pc \in {"bid", "escalate"} => run'[r].todo \cap run'[r].bids = {}
    <3>1. CASE ReadAllowance(r) \/ ListJobs(r) \/ BidsDone(r)
      BY <3>1, <1>t DEF ReadAllowance, ListJobs, BidsDone, Goes, RunState
    <3>4. CASE Snapshot(r)
      BY <3>4, <1>t DEF Snapshot, Goes, RunState
    <3>2. CASE Ranked(r)
      BY <3>2, <1>t DEF Ranked, Goes, RunState
    <3>3. CASE EscalateBid(r)
      BY <3>3, <1>t, <1>0 DEF EscalateBid, Goes, RunState, Remembered
    <3> QED
      BY <1>3, <3>1, <3>2, <3>3, <3>4
  <2> QED
    BY <1>2, <2>1, <2>2, <2>3
<1>4. ASSUME NEW r \in Run, BidPlaced(r) PROVE Remembered'
  <2>1. PICK j \in run[r].todo :
          /\ Market(r, j, TRUE)
          /\ Goes(r, [run[r] EXCEPT !.bids = @ \cup {j}, !.todo = @ \ {j}, !.capacity = @ - 1])
    BY <1>4 DEF BidPlaced
  <2>2. j \in Job /\ run[r].pc = "bid" /\ Live(r) /\ disk' = disk
    BY <1>4, <1>t DEF BidPlaced, RunState, Live
  <2>3. j \notin run[r].bids /\ placed[j] = 0
    BY <1>0, <1>t, <2>2 DEF Remembered
  <2>4. /\ run'[r].bids = run[r].bids \cup {j} /\ run'[r].todo = run[r].todo \ {j}
        /\ run'[r].pc = "bid" /\ \A q \in Run \ {r} : run'[q] = run[q]
    BY <2>1, <2>2, <1>t DEF Goes, RunState
  <2>5. \A i \in Job : placed'[i] = IF i = j THEN 1 ELSE placed[i]
    BY <2>1, <2>2, <2>3, <1>t DEF Market
  <2>6. \A q \in Run : Live(q)' <=> Live(q)
    BY <2>2, <2>4 DEF Live
  <2> QED
    BY <1>0, <2>2, <2>3, <2>4, <2>5, <2>6 DEF Remembered
<1>5. ASSUME NEW r \in Run, BidRefused(r) PROVE Remembered'
  <2>1. PICK j \in run[r].todo :
          Goes(r, [run[r] EXCEPT !.todo = @ \ {j}, !.capacity = @ - 1])
    BY <1>5 DEF BidRefused
  <2>2. Live(r) /\ UNCHANGED <<placed, disk>> /\ run[r].pc = "bid"
    BY <1>5 DEF BidRefused, Live
  <2>3. /\ run'[r].bids = run[r].bids /\ run'[r].todo = run[r].todo \ {j}
        /\ run'[r].pc = "bid" /\ \A q \in Run \ {r} : run'[q] = run[q]
    BY <2>1, <2>2, <1>t DEF Goes, RunState
  <2>4. run[r].todo \cap run[r].bids = {}
    BY <1>0, <2>2 DEF Remembered
  <2> QED
    BY <1>2, <2>2, <2>3, <2>4
<1>6. ASSUME NEW r \in Run, BidFailed(r) PROVE Remembered'
  <2>1. PICK j \in run[r].todo, taken \in BOOLEAN :
          /\ Market(r, j, taken)
          /\ forgotten' = (forgotten \/ taken)
          /\ \/ Goes(r, [run[r] EXCEPT !.pc = "escalate", !.todo = @ \ {j}, !.capacity = @ - 1])
             \/ Goes(r, [run[r] EXCEPT !.pc = "save"])
    BY <1>6 DEF BidFailed
  <2>2. ~taken
    BY <2>1
  <2>3. Live(r) /\ UNCHANGED <<placed, disk>> /\ run[r].pc = "bid"
    BY <1>6, <2>1, <2>2 DEF BidFailed, Live, Market
  <2>4. /\ run'[r].bids = run[r].bids /\ run'[r].pc \in {"escalate", "save"}
        /\ run'[r].pc = "escalate" => run'[r].todo = run[r].todo \ {j}
        /\ \A q \in Run \ {r} : run'[q] = run[q]
    <3>1. CASE Goes(r, [run[r] EXCEPT !.pc = "escalate", !.todo = @ \ {j}, !.capacity = @ - 1])
      BY <3>1, <1>t DEF Goes, RunState
    <3>2. CASE Goes(r, [run[r] EXCEPT !.pc = "save"])
      BY <3>2, <1>t DEF Goes, RunState
    <3> QED
      BY <2>1, <3>1, <3>2
  <2>5. run[r].todo \cap run[r].bids = {}
    BY <1>0, <2>3 DEF Remembered
  <2> QED
    BY <1>2, <2>3, <2>4, <2>5
<1>7. ASSUME NEW r \in Run, SaveState(r) \/ RunLost(r) PROVE Remembered'
  <2>1. /\ Live(r) /\ UNCHANGED placed /\ run'[r].pc = "over"
        /\ \A q \in Run \ {r} : run'[q] = run[q]
    <3>1. Live(r) /\ UNCHANGED placed /\ Goes(r, Over(r))
      BY <1>7 DEF SaveState, RunLost, Live
    <3>2. Over(r).pc = "over"
      BY <1>t DEF Over, RunState
    <3> QED
      BY <3>1, <3>2, <1>t DEF Goes
  <2>2. \A q \in Run : ~Live(q)'
    BY <1>0, <2>1 DEF Live, Remembered
  <2>3. run[r].bids \subseteq disk'.bids /\ disk.bids \subseteq disk'.bids /\ ~disk'.torn
    <3>1. disk.bids \subseteq run[r].bids /\ ~disk.torn
      BY <1>0, <2>1 DEF Remembered
    <3>2. CASE SaveState(r)
      BY <3>1, <3>2 DEF SaveState
    <3>3. CASE RunLost(r)
      BY <3>1, <3>3 DEF RunLost
    <3> QED
      BY <1>7, <3>2, <3>3
  <2>4. \A j \in Job : placed[j] > 0 => j \in disk'.bids
    BY <1>0, <2>1, <2>3 DEF Remembered
  <2> QED
    BY <1>0, <2>1, <2>2, <2>3, <2>4 DEF Remembered, Live
<1>8. ASSUME NEW r \in Run, SaveTorn(r) PROVE FALSE
  BY <1>8 DEF SaveTorn
<1>9. ASSUME UNCHANGED <<placed, disk, run>> PROVE Remembered'
  BY <1>9, <1>0 DEF Remembered, Live
<1> QED
  BY <1>1, <1>3, <1>4, <1>5, <1>6, <1>7, <1>8, <1>9
  DEF MoltNext, MoltStep, MarketMoves, molt

(* A job is bid for twice only after runs overlapped or a bid got lost.       *)
THEOREM NoDoubleBidHolds == MoltSpec => []NoDoubleBid
<1>1. MoltInit => Remembered
  BY DEF MoltInit, Remembered, Live
<1>2. MoltTypeOK /\ Remembered /\ [MoltNext]_molt => Remembered'
  BY RememberedNext
<1>3. MoltTypeOK /\ Remembered => NoDoubleBid
  BY DEF Remembered, NoDoubleBid, MoltTypeOK
<1> QED
  BY <1>1, <1>2, <1>3, MoltTypeCorrect, PTL DEF MoltSpec

--------------------------------------------------------------------------------
(* The autonomy kernel, for every set of observations and every cooldown.               *)

-------------------------------------------------------------------------------
(* Decisions that may still pass the refresh over once a cycle of the number s was the   *)
(* last to be saved: those of the rest of the cooldown, and then ...                 *)
Gap(s, r) == IF r = NoAction \/ s + 1 - r >= Cooldown THEN 0 ELSE Cooldown - (s + 1 - r)

(* ... an attempt at execution, unless it has just had no effect, or something else and  *)
(* an attempt, if the refresh itself has had none.                                   *)
Pot(s, r, useless) ==
  IF Gap(s, r) > 0 THEN Gap(s, r) + 1
  ELSE IF useless = "execution_attempt" THEN 0
  ELSE IF useless = "market_refresh" THEN 2 ELSE 1
PotAfterOther(s, r) == IF Gap(s, r) > 0 THEN Gap(s, r) + 1 ELSE 1

(* The last decision, if it had no effect.                                           *)
Useless == IF last.effect THEN NoAction ELSE last.action

Patience == Cooldown + 1 + excused

(* The cycle under way, and how far its files are.                                   *)
CycleFits ==
  /\ state <= decisions /\ waited <= decisions
  /\ cycle.pc = "idle" => excused <= decisions
  /\ cycle.pc # "idle" =>
       /\ excused < decisions /\ cycle.number <= decisions /\ cycle.action \in Action
       /\ cycle.number = IF cycle.pc = "state" THEN state ELSE state + 1
       /\ cycle.pc # "running" => cycle.before = NoAction
       /\ last = [action |-> cycle.action,
                  effect |-> IF cycle.pc \in {"last", "state"} THEN cycle.effect ELSE FALSE]

RefreshIsKnown == refreshed = NoAction \/ refreshed <= state

WaitIsBounded ==
  /\ cycle.pc = "idle" => waited + Pot(state, refreshed, Useless) <= Patience
  /\ cycle.pc # "idle" /\ cycle.action = "market_refresh" => waited = 0
  /\ cycle.pc # "idle" /\ cycle.action # "market_refresh" =>
       /\ waited + PotAfterOther(state, refreshed) <= Patience + 1
       /\ waited + Pot(cycle.number, refreshed, cycle.action) <= Patience

KernelInv == KernelTypeOK /\ CycleFits /\ (torn \/ (RefreshIsKnown /\ WaitIsBounded))

LEMMA UtilityType ==
  ASSUME NEW a \in Action, NEW obs \in Observation, NEW number
  PROVE  /\ Worth(a, obs, number) \in Int /\ Utility(a, obs, number) \in Int
         /\ Utility(a, obs, number) =
              IF a = last.action /\ ~last.effect THEN Worth(a, obs, number) - 2200
              ELSE Worth(a, obs, number)
<1>1. RefreshScore(obs, number) \in Int
  BY DEF RefreshScore, Observation
<1> QED
  BY <1>1 DEF Utility, Worth, Action

(* An action is available, and one of the available ones is best.                     *)
LEMMA ChosenIsBest ==
  ASSUME NEW obs \in Observation, NEW number
  PROVE  /\ Chosen(obs, number) \in Available(obs)
         /\ \A b \in Available(obs) : Utility(b, obs, number) <= Utility(Chosen(obs, number), obs, number)
<1> DEFINE u(a) == Utility(a, obs, number)
<1>1. \A a \in Action : u(a) \in Int
  BY UtilityType
<1>2. "market_refresh" \in Available(obs) /\ Available(obs) \subseteq Action
  BY DEF Available, Action
<1> HIDE DEF u
<1>3. \A a, b \in Action : u(a) <= u(b) \/ u(b) <= u(a)
  BY <1>1
<1>4. \A a, b, c \in Action : u(a) <= u(b) /\ u(b) <= u(c) => u(a) <= u(c)
  BY <1>1
<1> DEFINE Beats(a, b) == b \in Available(obs) => u(b) <= u(a)
<1>5. PICK a1 \in Available(obs) :
        Beats(a1, "market_refresh") /\ Beats(a1, "execution_attempt")
  BY <1>2, <1>3
<1>6. PICK a2 \in Available(obs) :
        Beats(a2, "market_refresh") /\ Beats(a2, "execution_attempt")
          /\ Beats(a2, "candidate_recovery")
  BY <1>2, <1>3, <1>4, <1>5
<1>7. PICK a3 \in Available(obs) :
        Beats(a3, "market_refresh") /\ Beats(a3, "execution_attempt")
          /\ Beats(a3, "candidate_recovery") /\ Beats(a3, "quality_review")
  BY <1>2, <1>3, <1>4, <1>6
<1>8. \A b \in Available(obs) : u(b) <= u(a3)
  BY <1>2, <1>7 DEF Action
<1>9. \E a \in Available(obs) : \A b \in Available(obs) : Utility(b, obs, number) <= Utility(a, obs, number)
  BY <1>8 DEF u
<1> QED
  BY <1>9 DEF Chosen

(* When the refresh is due only an attempt at execution is worth more, and only where    *)
(* the last decision was not such an attempt without effect; unless the refresh itself    *)
(* has just had none.                                                                *)
LEMMA DueChoice ==
  ASSUME NEW obs \in Observation, NEW number, Due(number), last.effect \in BOOLEAN,
         Chosen(obs, number) # "market_refresh", Useless # "market_refresh"
  PROVE  Chosen(obs, number) = "execution_attempt" /\ Useless # "execution_attempt"
<1> DEFINE a == Chosen(obs, number)
           r == "market_refresh"
<1>1. r \in Action /\ r \in Available(obs) /\ a \in Action /\ a # r
  BY ChosenIsBest DEF Available, Action
<1>2. Utility(r, obs, number) <= Utility(a, obs, number)
  BY <1>1, ChosenIsBest
<1>3. Utility(r, obs, number) = 7542
  <2>1. Worth(r, obs, number) = 7542
    BY DEF Worth, RefreshScore
  <2> QED
    BY <1>1, <2>1, UtilityType DEF Useless
<1>4. /\ Utility(a, obs, number) <= Worth(a, obs, number)
      /\ a = last.action /\ ~last.effect => Utility(a, obs, number) = Worth(a, obs, number) - 2200
      /\ Worth(a, obs, number) \in Int /\ Utility(a, obs, number) \in Int
  <2> HIDE DEF a
  <2> QED
    BY <1>1, UtilityType
<1>5. a # "execution_attempt" => Worth(a, obs, number) <= 6362
  <2> HIDE DEF a
  <2>1. CASE a = "candidate_recovery"
    BY <2>1 DEF Worth
  <2>2. CASE a = "quality_review"
    BY <2>2 DEF Worth
  <2> QED
    BY <1>1, <2>1, <2>2 DEF Action
<1>6. a = "execution_attempt" => Worth(a, obs, number) = 7586
  <2> HIDE DEF a
  <2> QED
    BY DEF Worth
<1> HIDE DEF a
<1>7. a = "execution_attempt" /\ Useless # "execution_attempt"
  <2>1. NoAction # "execution_attempt"
    BY KernelAssumption DEF Action
  <2> QED
    BY <1>2, <1>3, <1>4, <1>5, <1>6, <2>1 DEF Useless
<1> QED
  BY <1>7 DEF a

(* How the bound of passing over moves with the cycles.                               *)
LEMMA PotFacts ==
  ASSUME NEW s \in Nat, NEW r, r = NoAction \/ (r \in Nat /\ r <= s),
         NEW useless
  PROVE  /\ Gap(s, r) \in Nat /\ Pot(s, r, useless) \in Nat /\ PotAfterOther(s, r) \in Nat
         /\ Pot(s, r, useless) <= Cooldown + 1
         /\ useless # "market_refresh" => Pot(s, r, useless) <= PotAfterOther(s, r)
         /\ PotAfterOther(s + 1, r) <= PotAfterOther(s, r)
         /\ Gap(s, r) = 0 <=> r = NoAction \/ (s + 1 >= r /\ s + 1 - r >= Cooldown)
         /\ Gap(s, r) > 0 => /\ useless # "market_refresh" =>
                                  Pot(s + 1, r, useless) <= Gap(s, r)
                             /\ Pot(s, r, useless) = Gap(s, r) + 1
         /\ Gap(s, r) = 0 => Gap(s + 1, r) = 0
<1>1. Cooldown \in Nat /\ Cooldown >= 1
  BY KernelAssumption
<1>2. CASE r = NoAction
  BY <1>1, <1>2 DEF Gap, Pot, PotAfterOther
<1>3. CASE r # NoAction
  <2>1. r \in Nat /\ r <= s
    BY <1>3
  <2>2. Gap(s, r) = IF s + 1 - r >= Cooldown THEN 0 ELSE Cooldown - (s + 1 - r)
    BY <1>3 DEF Gap
  <2>3. Gap(s + 1, r) = IF s + 2 - r >= Cooldown THEN 0 ELSE Cooldown - (s + 2 - r)
    BY <1>3, <2>1 DEF Gap
  <2> QED
    BY <1>1, <1>3, <2>1, <2>2, <2>3 DEF Pot, PotAfterOther
<1> QED
  BY <1>2, <1>3

(* A decision for something else uses the bound up by one, if it has no effect.          *)
LEMMA PassedOver ==
  ASSUME NEW s \in Nat, NEW r, r = NoAction \/ (r \in Nat /\ r <= s),
         NEW useless, NEW a, a # "market_refresh",
         Gap(s, r) = 0 => \/ useless = "market_refresh"
                          \/ a = "execution_attempt" /\ useless # "execution_attempt"
  PROVE  LET p == Pot(s, r, useless)
             n == Pot(s + 1, r, a)
             o == PotAfterOther(s, r)
         IN  p \in Nat /\ o \in Nat /\ n \in Nat /\ o <= p /\ n + 1 <= p
<1> DEFINE p == Pot(s, r, useless)
           n == Pot(s + 1, r, a)
           o == PotAfterOther(s, r)
<1>1. p \in Nat /\ o \in Nat /\ Gap(s, r) \in Nat
  BY PotFacts
<1>2. n \in Nat
  <2>1. s + 1 \in Nat /\ (r = NoAction \/ (r \in Nat /\ r <= s + 1))
    OBVIOUS
  <2> QED
    BY <2>1, PotFacts
<1>3. CASE Gap(s, r) > 0
  <2>1. n <= Gap(s, r) /\ p = Gap(s, r) + 1
    BY <1>3, PotFacts
  <2>2. o = Gap(s, r) + 1
    BY <1>3 DEF PotAfterOther
  <2> HIDE DEF p, n, o
  <2>3. o <= p /\ n + 1 <= p
    BY <1>1, <1>2, <2>1, <2>2
  <2> QED
    BY <1>1, <1>2, <2>3 DEF p, n, o
<1>4. CASE Gap(s, r) = 0
  <2>1. Gap(s + 1, r) = 0
    BY <1>4, PotFacts
  <2>2. o = 1
    BY <1>4 DEF PotAfterOther
  <2>3. n = IF a = "execution_attempt" THEN 0 ELSE 1
    BY <2>1 DEF Pot
  <2>4. p = IF useless = "execution_attempt" THEN 0
            ELSE IF useless = "market_refresh" THEN 2 ELSE 1
    BY <1>4 DEF Pot
  <2> HIDE DEF p, n, o
  <2>5. o <= p /\ n + 1 <= p
    BY <1>4, <2>2, <2>3, <2>4
  <2> QED
    BY <1>1, <1>2, <2>5 DEF p, n, o
<1>5. Gap(s, r) = 0 \/ Gap(s, r) > 0
  BY <1>1
<1> QED
  BY <1>3, <1>4, <1>5

-------------------------------------------------------------------------------
LEMMA TakeDecisionNext ==
  ASSUME KernelInv, TakeDecision PROVE KernelInv'
<1> DEFINE number == state + 1
           a      == Chosen(world, number)
           seen   == world
<1>1. /\ cycle.pc = "idle" /\ decisions < MaxDecisions
      /\ cycle' = [pc |-> "running", action |-> a, number |-> number,
                   before |-> seen, effect |-> FALSE]
      /\ last' = [action |-> a, effect |-> FALSE]
      /\ waited'  = IF a = "market_refresh" THEN 0 ELSE waited + 1
      /\ excused' = IF a = "market_refresh" THEN 0 ELSE excused
      /\ decisions' = decisions + 1
      /\ world' = world /\ state' = state /\ refreshed' = refreshed /\ torn' = torn
  BY DEF TakeDecision
<1>2. /\ world \in Observed /\ state \in 0 .. MaxDecisions /\ decisions \in 0 .. MaxDecisions
      /\ waited \in 0 .. decisions /\ excused \in 0 .. decisions /\ MaxDecisions \in Nat
      /\ state <= decisions /\ waited <= decisions
      /\ last.effect \in BOOLEAN
      /\ refreshed \in 0 .. MaxDecisions \cup {NoAction} /\ torn \in BOOLEAN
      /\ Cooldown \in Nat
  BY KernelAssumption DEF KernelInv, KernelTypeOK, CycleFits
<1>3. world \in Observation /\ a \in Action
  <2>1. world \in Observation
    BY <1>2, KernelAssumption
  <2>2. Chosen(world, number) \in Available(world)
    BY <2>1, ChosenIsBest
  <2> QED
    BY <2>1, <2>2 DEF Available
<1>4. torn \/ (refreshed = NoAction \/ (refreshed \in Nat /\ refreshed <= state))
  BY <1>2 DEF KernelInv, RefreshIsKnown
<1>5. Due(number) /\ a # "market_refresh" =>
        Useless = "market_refresh" \/ (a = "execution_attempt" /\ Useless # "execution_attempt")
  BY <1>2, <1>3, DueChoice
<1> HIDE DEF a
<1>6. /\ cycle'.pc = "running" /\ cycle'.action = a /\ cycle'.number = state + 1
      /\ last'.action = a /\ last'.effect = FALSE
  BY <1>1
<1>7. KernelTypeOK'
  <2>1. cycle' \in [pc : {"idle", "running", "measured", "last", "state"},
                action : Action \cup {NoAction}, number : 0..MaxDecisions,
                before : Observed \cup {NoAction}, effect : BOOLEAN]
    <3>1. number \in 0 .. MaxDecisions
      BY <1>1, <1>2
    <3> QED
      BY <1>1, <1>2, <1>3, <3>1
  <2>2. last' \in [action : Action \cup {NoAction}, effect : BOOLEAN]
    BY <1>1, <1>3
  <2>3. decisions' \in 0 .. MaxDecisions /\ waited' \in 0 .. decisions' /\ excused' \in 0 .. decisions'
    BY <1>1, <1>2
  <2> QED
    BY <1>1, <1>2, <2>1, <2>2, <2>3 DEF KernelTypeOK
<1>8. CycleFits'
  <2>1. state' <= decisions' /\ waited' <= decisions' /\ excused' < decisions'
        /\ cycle'.number <= decisions' /\ cycle'.number = state' + 1
    BY <1>1, <1>2, <1>6
  <2> QED
    BY <1>1, <1>3, <1>6, <2>1 DEF CycleFits
<1>9. torn' \/ (RefreshIsKnown' /\ WaitIsBounded')
  <2> SUFFICES ASSUME ~torn PROVE RefreshIsKnown' /\ WaitIsBounded'
    BY <1>1
  <2>1. RefreshIsKnown'
    BY <1>1 DEF KernelInv, RefreshIsKnown
  <2>2. CASE a = "market_refresh"
    BY <1>1, <1>6, <2>1, <2>2 DEF WaitIsBounded
  <2>3. CASE a # "market_refresh"
    <3>1. waited + Pot(state, refreshed, Useless) <= Patience
      BY <1>1 DEF KernelInv, WaitIsBounded
    <3>2. state \in Nat /\ (refreshed = NoAction \/ (refreshed \in Nat /\ refreshed <= state))
      BY <1>2, <1>4
    <3>3. Gap(state, refreshed) = 0 =>
            Useless = "market_refresh" \/ (a = "execution_attempt" /\ Useless # "execution_attempt")
      <4>1. Gap(state, refreshed) = 0 => Due(number)
        <5>1. Gap(state, refreshed) = 0 =>
                refreshed = NoAction \/ (state + 1 >= refreshed /\ state + 1 - refreshed >= Cooldown)
          BY <1>2, <3>2, PotFacts
        <5> QED
          BY <1>2, <3>2, <5>1 DEF Due
      <4> QED
        BY <1>5, <2>3, <4>1
    <3> DEFINE p == Pot(state, refreshed, Useless)
               n == Pot(state + 1, refreshed, a)
               o == PotAfterOther(state, refreshed)
    <3>4. p \in Nat /\ o \in Nat /\ n \in Nat /\ o <= p /\ n + 1 <= p
      BY ONLY <2>3, <3>2, <3>3, PassedOver
    <3>6. waited' + o <= Patience' + 1 /\ waited' + n <= Patience'
      <4>1. waited' = waited + 1 /\ excused' = excused /\ waited \in Nat /\ excused \in Nat
        BY <1>1, <1>2, <2>3
      <4>2. waited + p <= Cooldown + 1 + excused
        BY <3>1 DEF Patience
      <4> HIDE DEF p, n, o
      <4> QED
        BY <1>2, <3>4, <4>1, <4>2 DEF Patience
    <3>7. /\ waited' + PotAfterOther(state', refreshed') <= Patience' + 1
          /\ waited' + Pot(cycle'.number, refreshed', cycle'.action) <= Patience'
      BY <1>1, <1>6, <3>6
    <3> QED
      BY <1>6, <2>1, <2>3, <3>7 DEF WaitIsBounded
  <2> QED
    BY <2>2, <2>3
<1> QED
  BY <1>7, <1>8, <1>9 DEF KernelInv

(* The steps of a cycle that leave what it decided, and its counters, alone.            *)
LEMMA CycleNext ==
  ASSUME KernelInv, Measure \/ SaveLast \/ SaveCycle PROVE KernelInv'
<1> DEFINE CycleRec == [pc : {"idle", "running", "measured", "last", "state"},
                action : Action \cup {NoAction}, number : 0..MaxDecisions,
                before : Observed \cup {NoAction}, effect : BOOLEAN]
<1>1. /\ cycle \in CycleRec /\ state \in 0 .. MaxDecisions /\ MaxDecisions \in Nat
      /\ decisions \in 0 .. MaxDecisions /\ waited \in 0 .. decisions
      /\ excused \in 0 .. decisions /\ Cooldown \in Nat
      /\ cycle.pc # "idle" /\ cycle.action \in Action
      /\ excused < decisions /\ cycle.number <= decisions
      /\ cycle.number = state + 1 /\ torn \in BOOLEAN
  BY KernelAssumption DEF KernelInv, KernelTypeOK, CycleFits, Measure, SaveLast, SaveCycle
<1>2. UNCHANGED <<world, refreshed, decisions, waited, excused, torn>>
  BY DEF Measure, SaveLast, SaveCycle
<1>3. /\ cycle' \in CycleRec /\ cycle'.action = cycle.action /\ cycle'.number = cycle.number
      /\ cycle'.pc \in {"measured", "last", "state"} /\ cycle'.before = NoAction
      /\ state' = IF cycle'.pc = "state" THEN cycle.number ELSE state
      /\ last' = [action |-> cycle.action,
                  effect |-> IF cycle'.pc = "measured" THEN FALSE ELSE cycle'.effect]
  <2>1. CASE Measure
    <3>1. PICK effect \in BOOLEAN :
            cycle' = [cycle EXCEPT !.pc = "measured", !.before = NoAction, !.effect = effect]
      BY <2>1 DEF Measure
    <3>2. last' = last /\ state' = state /\ cycle.pc = "running"
      BY <2>1 DEF Measure
    <3> QED
      BY <1>1, <3>1, <3>2 DEF KernelInv, CycleFits
  <2>2. CASE SaveLast
    <3>1. /\ last' = [action |-> cycle.action, effect |-> cycle.effect]
          /\ cycle' = [cycle EXCEPT !.pc = "last"] /\ state' = state /\ cycle.pc = "measured"
      BY <2>2 DEF SaveLast
    <3> QED
      BY <1>1, <3>1 DEF KernelInv, CycleFits
  <2>3. CASE SaveCycle
    <3>1. /\ cycle' = [cycle EXCEPT !.pc = "state"] /\ state' = cycle.number
          /\ last' = last /\ cycle.pc = "last"
      BY <2>3 DEF SaveCycle
    <3> QED
      BY <1>1, <3>1 DEF KernelInv, CycleFits
  <2> QED
    BY <2>1, <2>2, <2>3
<1>4. /\ state' \in 0 .. MaxDecisions /\ state' <= decisions /\ state <= state'
      /\ cycle'.number = IF cycle'.pc = "state" THEN state' ELSE state' + 1
      /\ (state' = state \/ state' = state + 1)
  <2>1. state <= decisions
    BY DEF KernelInv, CycleFits
  <2> QED
    BY <1>1, <1>3, <2>1
<1>5. KernelTypeOK'
  <2>1. last' \in [action : Action \cup {NoAction}, effect : BOOLEAN]
    BY <1>1, <1>3
  <2> QED
    BY <1>2, <1>3, <1>4, <2>1 DEF KernelInv, KernelTypeOK
<1>6. CycleFits'
  <2>1. last' = [action |-> cycle'.action,
                 effect |-> IF cycle'.pc \in {"last", "state"} THEN cycle'.effect ELSE FALSE]
    BY <1>3
  <2>2. waited <= decisions
    BY DEF KernelInv, CycleFits
  <2> QED
    BY <1>1, <1>2, <1>3, <1>4, <2>1, <2>2 DEF CycleFits
<1>7. torn' \/ (RefreshIsKnown' /\ WaitIsBounded')
  <2> SUFFICES ASSUME ~torn PROVE RefreshIsKnown' /\ WaitIsBounded'
    BY <1>2
  <2>1. state \in Nat /\ (refreshed = NoAction \/ (refreshed \in Nat /\ refreshed <= state))
    BY <1>1 DEF KernelInv, KernelTypeOK, RefreshIsKnown
  <2>2. RefreshIsKnown'
    BY <1>1, <1>2, <1>4, <2>1 DEF RefreshIsKnown
  <2>3. PotAfterOther(state + 1, refreshed) <= PotAfterOther(state, refreshed)
        /\ PotAfterOther(state, refreshed) \in Nat
    BY ONLY <2>1, PotFacts
  <2>4. PotAfterOther(state + 1, refreshed) \in Nat
    <3>1. state + 1 \in Nat /\ (refreshed = NoAction \/ (refreshed \in Nat /\ refreshed <= state + 1))
      BY <2>1
    <3> QED
      BY ONLY <3>1, PotFacts
  <2>5. PotAfterOther(state', refreshed') <= PotAfterOther(state, refreshed)
        /\ PotAfterOther(state', refreshed') \in Nat
    BY <1>2, <1>4, <2>3, <2>4
  <2>6. CASE cycle.action = "market_refresh"
    BY <1>1, <1>2, <1>3, <2>2, <2>6 DEF KernelInv, WaitIsBounded
  <2>7. CASE cycle.action # "market_refresh"
    <3>1. /\ waited + PotAfterOther(state, refreshed) <= Patience + 1
          /\ waited + Pot(cycle.number, refreshed, cycle.action) <= Patience
      BY <1>1, <2>7 DEF KernelInv, WaitIsBounded
    <3>2. waited' + PotAfterOther(state', refreshed') <= Patience' + 1
      BY <1>1, <1>2, <2>3, <2>5, <3>1 DEF Patience
    <3>3. waited' + Pot(cycle'.number, refreshed', cycle'.action) <= Patience'
      BY <1>2, <1>3, <3>1 DEF Patience
    <3> QED
      BY <1>3, <2>2, <2>7, <3>2, <3>3 DEF WaitIsBounded
  <2> QED
    BY <2>6, <2>7
<1> QED
  BY <1>5, <1>6, <1>7 DEF KernelInv

(* A cycle under way, what its files and counters are.                               *)
LEMMA Underway ==
  ASSUME KernelInv, cycle.pc # "idle"
  PROVE  /\ state \in 0 .. MaxDecisions /\ state <= decisions /\ MaxDecisions \in Nat
         /\ decisions \in 0 .. MaxDecisions /\ waited \in 0 .. decisions
         /\ excused \in 0 .. decisions /\ excused < decisions /\ Cooldown \in Nat
         /\ cycle.number \in 0 .. MaxDecisions /\ cycle.number <= decisions
         /\ cycle.pc = "state" => cycle.number = state
         /\ cycle.action \in Action /\ cycle.action # NoAction /\ NoAction # "market_refresh"
         /\ (cycle.effect = TRUE \/ cycle.effect = FALSE)
         /\ (torn = TRUE \/ torn = FALSE)
         /\ refreshed \in 0 .. MaxDecisions \cup {NoAction}
         /\ last \in [action : Action \cup {NoAction}, effect : BOOLEAN]
         /\ last.action = cycle.action
         /\ last.effect = IF cycle.pc \in {"last", "state"} THEN cycle.effect ELSE FALSE
         /\ ~torn => refreshed = NoAction \/ (refreshed \in Nat /\ refreshed <= state)
<1>1. KernelTypeOK /\ CycleFits /\ (torn \/ RefreshIsKnown)
  BY DEF KernelInv
<1>2. NoAction \notin Action /\ "market_refresh" \in Action
  BY KernelAssumption DEF Action
<1>3. /\ state \in 0 .. MaxDecisions /\ state <= decisions /\ MaxDecisions \in Nat
      /\ decisions \in 0 .. MaxDecisions /\ waited \in 0 .. decisions
      /\ excused \in 0 .. decisions /\ excused < decisions /\ Cooldown \in Nat
      /\ cycle.number \in 0 .. MaxDecisions /\ cycle.number <= decisions
      /\ refreshed \in 0 .. MaxDecisions \cup {NoAction}
  BY <1>1, KernelAssumption DEF KernelTypeOK, CycleFits
<1>4. /\ cycle.pc = "state" => cycle.number = state
      /\ cycle.action \in Action /\ cycle.effect \in BOOLEAN /\ torn \in BOOLEAN
      /\ last \in [action : Action \cup {NoAction}, effect : BOOLEAN]
      /\ last = [action |-> cycle.action,
                 effect |-> IF cycle.pc \in {"last", "state"} THEN cycle.effect ELSE FALSE]
  BY <1>1 DEF KernelTypeOK, CycleFits
<1>5. ~torn => refreshed = NoAction \/ (refreshed \in Nat /\ refreshed <= state)
  BY <1>1, <1>3 DEF RefreshIsKnown
<1> QED
  BY <1>2, <1>3, <1>4, <1>5

(* What the end of a cycle leaves, whichever way it ends.                              *)
LEMMA EndNext ==
  ASSUME KernelInv, cycle.pc # "idle",
         cycle' = NoCycle, UNCHANGED <<world, decisions, waited>>,
         state' \in {state, 0}, refreshed' \in 0 .. MaxDecisions \cup {NoAction},
         last' \in [action : Action \cup {NoAction}, effect : BOOLEAN],
         excused' = excused \/ excused' = excused + 1, torn' \in BOOLEAN,
         torn' \/ ( /\ state' = state
                    /\ refreshed' = NoAction \/ (refreshed' \in Nat /\ refreshed' <= state)
                    /\ waited + Pot(state, refreshed', Useless') <= Cooldown + 1 + excused')
  PROVE  KernelInv'
<1>1. /\ NoCycle \in [pc : {"idle", "running", "measured", "last", "state"},
                action : Action \cup {NoAction}, number : 0..MaxDecisions,
                before : Observed \cup {NoAction}, effect : BOOLEAN]
      /\ NoCycle.pc = "idle"
  BY KernelAssumption DEF NoCycle
<1>2. /\ state' \in 0 .. MaxDecisions /\ state' <= decisions
      /\ excused' \in 0 .. decisions /\ waited <= decisions /\ excused' <= decisions
  BY Underway
<1>3. KernelTypeOK'
  <2>1. KernelTypeOK
    BY DEF KernelInv
  <2> QED
    BY <1>1, <1>2, <2>1 DEF KernelTypeOK
<1>4. CycleFits'
  BY <1>1, <1>2 DEF CycleFits
<1>5. torn' \/ (RefreshIsKnown' /\ WaitIsBounded')
  BY <1>1 DEF RefreshIsKnown, WaitIsBounded, Patience
<1> QED
  BY <1>3, <1>4, <1>5 DEF KernelInv

(* A cycle that decided for the refresh starts the wait anew.                           *)
LEMMA AfterRefresh ==
  ASSUME KernelInv, ~torn, cycle.pc # "idle", cycle.action = "market_refresh",
         NEW r, r = NoAction \/ (r \in Nat /\ r <= state), NEW useless
  PROVE  waited + Pot(state, r, useless) <= Cooldown + 1 + excused
<1> DEFINE p == Pot(state, r, useless)
<1>1. state \in Nat /\ Cooldown \in Nat /\ excused \in Nat
  BY Underway
<1>2. p \in Nat /\ p <= Cooldown + 1
  BY ONLY <1>1, r = NoAction \/ (r \in Nat /\ r <= state), PotFacts
<1>3. waited = 0
  BY DEF KernelInv, WaitIsBounded
<1> HIDE DEF p
<1>4. waited + p <= Cooldown + 1 + excused
  BY <1>1, <1>2, <1>3
<1> QED
  BY <1>4 DEF p

(* One that decided for something else, and had an effect or was killed, adds one to     *)
(* what is excused.                                                                  *)
LEMMA AfterExcuse ==
  ASSUME KernelInv, ~torn, cycle.pc # "idle", cycle.action # "market_refresh",
         NEW useless, useless # "market_refresh"
  PROVE  waited + Pot(state, refreshed, useless) <= Cooldown + 1 + (excused + 1)
<1> DEFINE p == Pot(state, refreshed, useless)
           o == PotAfterOther(state, refreshed)
<1>1. /\ state \in Nat /\ Cooldown \in Nat /\ excused \in Nat /\ waited \in Nat
      /\ refreshed = NoAction \/ (refreshed \in Nat /\ refreshed <= state)
  BY Underway
<1>2. p \in Nat /\ o \in Nat /\ p <= o
  BY <1>1, PotFacts
<1>3. waited + o <= Patience + 1
  BY DEF KernelInv, WaitIsBounded
<1> HIDE DEF p, o
<1>4. waited + p <= Cooldown + 1 + (excused + 1)
  BY <1>1, <1>2, <1>3 DEF Patience
<1> QED
  BY <1>4 DEF p

LEMMA LearnNext ==
  ASSUME KernelInv, Learn PROVE KernelInv'
<1>1. cycle.pc = "state"
  BY DEF Learn
<1>2. cycle.pc # "idle"
  BY <1>1
<1>3. /\ cycle' = NoCycle /\ UNCHANGED <<world, state, last, decisions, waited, torn>>
      /\ cycle.action = "market_refresh" => refreshed' = cycle.number
      /\ cycle.action # "market_refresh" => refreshed' = refreshed
      /\ excused' = excused + (IF cycle.effect /\ cycle.action # "market_refresh" THEN 1 ELSE 0)
  BY DEF Learn
<1>4. /\ excused \in Nat /\ (cycle.effect = TRUE \/ cycle.effect = FALSE)
      /\ (torn = TRUE \/ torn = FALSE) /\ cycle.number = state
      /\ state \in 0 .. MaxDecisions /\ refreshed \in 0 .. MaxDecisions \cup {NoAction}
      /\ last \in [action : Action \cup {NoAction}, effect : BOOLEAN]
      /\ last.action = cycle.action /\ last.effect = cycle.effect
      /\ NoAction # "market_refresh"
      /\ ~torn => refreshed = NoAction \/ (refreshed \in Nat /\ refreshed <= state)
  BY <1>1, <1>2, Underway
<1>5. excused' = excused \/ excused' = excused + 1
  BY <1>3, <1>4
<1>6. ASSUME ~torn
      PROVE  /\ refreshed' = NoAction \/ (refreshed' \in Nat /\ refreshed' <= state)
             /\ waited + Pot(state, refreshed', Useless) <= Cooldown + 1 + excused'
  <2>1. CASE cycle.action = "market_refresh"
    <3>1. refreshed' = state /\ excused' = excused
      BY <1>3, <1>4, <2>1
    <3>2. refreshed' \in Nat /\ refreshed' <= state
      BY <1>4, <3>1
    <3> QED
      BY <1>2, <1>6, <2>1, <3>1, <3>2, AfterRefresh
  <2>2. CASE cycle.action # "market_refresh" /\ cycle.effect = TRUE
    <3>1. refreshed' = refreshed /\ excused' = excused + 1 /\ Useless = NoAction
      BY <1>3, <1>4, <2>2 DEF Useless
    <3> QED
      BY <1>2, <1>4, <1>6, <2>2, <3>1, AfterExcuse
  <2>3. CASE cycle.action # "market_refresh" /\ cycle.effect = FALSE
    <3>1. refreshed' = refreshed /\ excused' = excused /\ Useless = cycle.action
      BY <1>3, <1>4, <2>3 DEF Useless
    <3>2. waited + Pot(cycle.number, refreshed, cycle.action) <= Cooldown + 1 + excused
      BY <1>2, <1>6, <2>3 DEF KernelInv, WaitIsBounded, Patience
    <3> QED
      BY <1>4, <1>6, <3>1, <3>2
  <2> QED
    BY <1>4, <2>1, <2>2, <2>3
<1>7. Useless' = Useless /\ state' = state /\ torn' = torn /\ last' = last
  BY <1>3 DEF Useless
<1>8. refreshed' \in 0 .. MaxDecisions \cup {NoAction}
  BY <1>3, <1>4
<1>9. torn' \/ ( /\ state' = state
                 /\ refreshed' = NoAction \/ (refreshed' \in Nat /\ refreshed' <= state)
                 /\ waited + Pot(state, refreshed', Useless') <= Cooldown + 1 + excused')
  BY <1>4, <1>6, <1>7
<1>10. /\ last' \in [action : Action \cup {NoAction}, effect : BOOLEAN]
       /\ state' \in {state, 0} /\ torn' \in BOOLEAN
  BY <1>4, <1>7
<1> QED
  BY ONLY KernelInv, <1>2, <1>3, <1>5, <1>8, <1>9, <1>10, EndNext

LEMMA KilledNext ==
  ASSUME KernelInv, Killed PROVE KernelInv'
<1>1. /\ cycle.pc # "idle" /\ cycle' = NoCycle
      /\ UNCHANGED <<world, state, last, refreshed, decisions, waited, torn>>
      /\ cycle.action = "market_refresh" => excused' = excused + 0
      /\ cycle.action # "market_refresh" => excused' = excused + 1
  BY DEF Killed
<1>2. /\ excused \in Nat /\ (torn = TRUE \/ torn = FALSE)
      /\ refreshed \in 0 .. MaxDecisions \cup {NoAction}
      /\ last \in [action : Action \cup {NoAction}, effect : BOOLEAN]
      /\ last.action = cycle.action /\ NoAction # "market_refresh"
      /\ ~torn => refreshed = NoAction \/ (refreshed \in Nat /\ refreshed <= state)
  BY <1>1, Underway
<1>3. ASSUME ~torn
      PROVE  waited + Pot(state, refreshed, Useless) <= Cooldown + 1 + excused'
  <2>1. CASE cycle.action = "market_refresh"
    <3>1. excused' = excused
      BY <1>1, <1>2, <2>1
    <3> QED
      BY <1>1, <1>2, <1>3, <2>1, <3>1, AfterRefresh
  <2>2. CASE cycle.action # "market_refresh"
    <3>1. Useless # "market_refresh"
      BY <1>2, <2>2 DEF Useless
    <3> QED
      BY <1>1, <1>3, <2>2, <3>1, AfterExcuse
  <2> QED
    BY <2>1, <2>2
<1>4. Useless' = Useless
  BY <1>1 DEF Useless
<1>5. excused' = excused \/ excused' = excused + 1
  BY <1>1, <1>2
<1> QED
  BY <1>1, <1>2, <1>3, <1>4, <1>5, EndNext

LEMMA KilledWritingNext ==
  ASSUME KernelInv, KilledWriting PROVE KernelInv'
<1>1. /\ cycle.pc # "idle" /\ cycle' = NoCycle /\ torn' = TRUE
      /\ UNCHANGED <<world, decisions, waited, excused>>
      /\ state' \in {state, 0} /\ (refreshed' = refreshed \/ refreshed' = NoAction)
      /\ (last' = last \/ last' = [action |-> NoAction, effect |-> FALSE])
  BY DEF KilledWriting
<1>2. /\ refreshed \in 0 .. MaxDecisions \cup {NoAction}
      /\ last \in [action : Action \cup {NoAction}, effect : BOOLEAN]
  BY <1>1, Underway
<1>3. refreshed' \in 0 .. MaxDecisions \cup {NoAction}
  BY <1>1, <1>2
<1>4. last' \in [action : Action \cup {NoAction}, effect : BOOLEAN]
  <2>1. [action |-> NoAction, effect |-> FALSE] \in [action : Action \cup {NoAction}, effect : BOOLEAN]
    OBVIOUS
  <2> QED
    BY <1>1, <1>2, <2>1
<1> QED
  BY <1>1, <1>3, <1>4, EndNext

LEMMA KernelInvNext == KernelInv /\ [KernelNext]_kernel => KernelInv'
<1> SUFFICES ASSUME KernelInv, [KernelNext]_kernel PROVE KernelInv'
  OBVIOUS
<1>1. CASE WorldMoves \/ UNCHANGED kernel
  <2>1. /\ world' \in Observed
        /\ UNCHANGED <<state, last, refreshed, cycle, decisions, waited, excused, torn>>
    BY <1>1 DEF WorldMoves, kernel, KernelInv, KernelTypeOK
  <2> QED
    BY <2>1 DEF KernelInv, KernelTypeOK, CycleFits, RefreshIsKnown, WaitIsBounded, Patience, Useless
<1> QED
  BY <1>1, TakeDecisionNext, CycleNext, LearnNext, KilledNext, KilledWritingNext DEF KernelNext

LEMMA KernelInvInit == KernelInit => KernelInv
<1> SUFFICES ASSUME KernelInit PROVE KernelInv
  OBVIOUS
<1>1. /\ cycle.pc = "idle" /\ state = 0 /\ decisions = 0 /\ waited = 0 /\ excused = 0
      /\ refreshed = NoAction /\ torn = FALSE /\ last.action = NoAction /\ last.effect = FALSE
  BY DEF KernelInit, NoCycle
<1>2. KernelTypeOK
  <2>1. world \in Observed /\ MaxDecisions \in Nat
    BY KernelAssumption DEF KernelInit
  <2>2. cycle \in [pc : {"idle", "running", "measured", "last", "state"},
                action : Action \cup {NoAction}, number : 0..MaxDecisions,
                before : Observed \cup {NoAction}, effect : BOOLEAN]
    BY <2>1 DEF KernelInit, NoCycle
  <2>3. last \in [action : Action \cup {NoAction}, effect : BOOLEAN]
    BY DEF KernelInit
  <2>4. /\ state \in 0 .. MaxDecisions /\ decisions \in 0 .. MaxDecisions
        /\ waited \in 0 .. decisions /\ excused \in 0 .. decisions
    BY <1>1, <2>1
  <2>5. refreshed \in 0 .. MaxDecisions \cup {NoAction} /\ torn \in BOOLEAN
    BY <1>1
  <2> QED
    BY <2>1, <2>2, <2>3, <2>4, <2>5 DEF KernelTypeOK
<1>3. CycleFits /\ RefreshIsKnown
  BY <1>1 DEF CycleFits, RefreshIsKnown
<1>4. WaitIsBounded
  <2>1. Pot(0, NoAction, NoAction) = 1
    BY KernelAssumption DEF Pot, Gap, Action
  <2>2. Useless = NoAction /\ Cooldown \in Nat
    BY <1>1, KernelAssumption DEF Useless
  <2> QED
    BY <1>1, <2>1, <2>2 DEF WaitIsBounded, Patience
<1> QED
  BY <1>2, <1>3, <1>4 DEF KernelInv

(* The three files, the cycle under way and the counters keep their shape.              *)
THEOREM KernelTypeCorrect == KernelSpec => []KernelTypeOK
<1>1. KernelInv => KernelTypeOK
  BY DEF KernelInv
<1> QED
  BY <1>1, KernelInvInit, KernelInvNext, PTL DEF KernelSpec

LEMMA WaitImpliesBound == KernelInv => RefreshIsNotStarved
<1> SUFFICES ASSUME KernelInv, ~torn PROVE waited <= Cooldown + 1 + excused
  BY DEF RefreshIsNotStarved
<1>1. /\ state \in Nat /\ (refreshed = NoAction \/ (refreshed \in Nat /\ refreshed <= state))
      /\ waited \in Nat /\ excused \in Nat /\ Cooldown \in Nat /\ last.effect \in BOOLEAN
      /\ cycle.number \in Nat
  BY KernelAssumption DEF KernelInv, KernelTypeOK, RefreshIsKnown
<1>2. CASE cycle.pc = "idle"
  <2>1. waited + Pot(state, refreshed, Useless) <= Cooldown + 1 + excused
    BY <1>2 DEF KernelInv, WaitIsBounded, Patience
  <2>2. Pot(state, refreshed, Useless) \in Nat
    BY ONLY <1>1, PotFacts
  <2> QED
    BY <1>1, <2>1, <2>2
<1>3. CASE cycle.pc # "idle" /\ cycle.action = "market_refresh"
  BY <1>1, <1>3 DEF KernelInv, WaitIsBounded
<1>4. CASE cycle.pc # "idle" /\ cycle.action # "market_refresh"
  <2>1. waited + Pot(cycle.number, refreshed, cycle.action) <= Cooldown + 1 + excused
    BY <1>4 DEF KernelInv, WaitIsBounded, Patience
  <2>2. refreshed = NoAction \/ (refreshed \in Nat /\ refreshed <= cycle.number)
    <3>1. cycle.number = state \/ cycle.number = state + 1
      BY <1>4 DEF KernelInv, CycleFits
    <3> QED
      BY <1>1, <3>1
  <2>3. Pot(cycle.number, refreshed, cycle.action) \in Nat
    BY ONLY <1>1, <2>2, PotFacts
  <2> QED
    BY <1>1, <2>1, <2>3
<1> QED
  BY <1>2, <1>3, <1>4

(* The refresh of the market is tried again after its cooldown and at most two more       *)
(* decisions, not counting those that had an effect or were killed; for every cooldown,    *)
(* however the market moves, unless a file was torn.                                  *)
THEOREM RefreshIsNotStarvedHolds == KernelSpec => []RefreshIsNotStarved
  BY WaitImpliesBound, KernelInvInit, KernelInvNext, PTL DEF KernelSpec

--------------------------------------------------------------------------------
(* The reconciliation with the outside, for every set of receipts and wallets.          *)

(* The files a run works on, and what it has read when.                                 *)
Working ==
  /\ repo \in Files
  /\ probe.failed \subseteq Receipt \cup Wallet
  /\ probe.pc \in {"off", "comments", "wallets", "persist"}
  /\ probe \in [pc : {"off", "comments", "wallets", "persist"}, asked : SUBSET (Receipt \cup Wallet),
                verdicts : [Receipt -> Verdict], balances : Balances,
                failed : SUBSET (Receipt \cup Wallet), disk : Files \cup {Unknown}]
  /\ IF probe.pc = "off" THEN probe.balances = Unread ELSE probe.disk \in Files
  /\ probe.pc = "wallets" => \A w \in probe.asked \cap Wallet :
                               w \in probe.failed \/ probe.balances[w] # Unknown

(* Of a wallet that the run has read: what it has gained since, and the more of what it  *)
(* held then and what it holds.                                                          *)
Gain == [w \in Wallet |-> IF probe.balances[w] = Unknown \/ funds[w] <= probe.balances[w]
                            THEN 0 ELSE funds[w] - probe.balances[w]]
Most  == [w \in Wallet |-> IF probe.balances[w] = Unknown \/ funds[w] >= probe.balances[w]
                            THEN funds[w] ELSE probe.balances[w]]

Others == [w \in Wallet |-> IF w = Followed THEN 0 ELSE funds[w]]

(* Above a balance no more than has arrived can be found, whichever of the wallets are    *)
(* read again.                                                                           *)
Bounds(base) == base # Unknown => SumOver(Most, Wallet) <= base + arrived

(* What a ledger counts has arrived, and its baseline is such a balance, or what becomes   *)
(* one.                                                                                  *)
Earned(ledger) ==
  /\ ledger.received <= arrived
  /\ Bounds(ledger.baseline) /\ Bounds(ledger.last)

GainArrived == SumOver(Gain, Wallet) <= arrived

(* Wallets that the monitor does not follow were empty.                                  *)
OthersArrived == SumOver(Others, Wallet) <= arrived

OutcomeInv ==
  /\ OutcomeTypeOK /\ Working
  /\ GainArrived /\ OthersArrived /\ Earned(repo.ledger)
  /\ probe.pc # "off" => Earned(probe.disk.ledger)

LEMMA UnreadType == Unread \in Balances /\ Silent \in [Receipt -> Verdict]
  BY DEF Unread, Silent, Balances, Amount, Verdict

(* The sums can only fall while nothing is paid, whatever is read or spent.               *)
LEMMA SumsFall ==
  ASSUME probe.balances \in Balances, funds \in [Wallet -> Nat],
         probe'.balances \in Balances, funds' \in [Wallet -> Nat],
         \A w \in Wallet : funds'[w] <= funds[w],
         \A w \in Wallet : probe'.balances[w] \in {probe.balances[w], Unknown, funds[w]}
  PROVE  /\ SumOver(Most', Wallet) <= SumOver(Most, Wallet)
         /\ SumOver(Gain', Wallet) <= SumOver(Gain, Wallet)
         /\ SumOver(Others', Wallet) <= SumOver(Others, Wallet)
<1>1. /\ Most \in [Wallet -> Nat] /\ Gain \in [Wallet -> Nat]
      /\ Most' \in [Wallet -> Nat] /\ Gain' \in [Wallet -> Nat]
  BY DEF Most, Gain, Balances, Amount
<1>a. \A w \in Wallet : Others[w] \in Int /\ Others'[w] \in Int /\ Others'[w] <= Others[w]
  BY DEF Others
<1>b. SumOver(Others', Wallet) <= SumOver(Others, Wallet)
  <2> HIDE DEF Others
  <2> QED
    BY <1>a, ReconciliationAssumption, SumCompares
<1>2. ASSUME NEW w \in Wallet PROVE Most'[w] <= Most[w] /\ Gain'[w] <= Gain[w]
  <2>1. funds[w] \in Nat /\ funds'[w] \in Nat /\ funds'[w] <= funds[w] /\ Unknown \notin Nat
    BY ReconciliationAssumption
  <2>2. probe.balances[w] \in Nat \cup {Unknown} /\ probe'.balances[w] \in Nat \cup {Unknown}
    BY DEF Balances, Amount
  <2>3. /\ Most[w] = IF probe.balances[w] = Unknown \/ funds[w] >= probe.balances[w]
                            THEN funds[w] ELSE probe.balances[w]
        /\ Most'[w] = IF probe'.balances[w] = Unknown \/ funds'[w] >= probe'.balances[w]
                            THEN funds'[w] ELSE probe'.balances[w]
        /\ Gain[w] = IF probe.balances[w] = Unknown \/ funds[w] <= probe.balances[w]
                            THEN 0 ELSE funds[w] - probe.balances[w]
        /\ Gain'[w] = IF probe'.balances[w] = Unknown \/ funds'[w] <= probe'.balances[w]
                            THEN 0 ELSE funds'[w] - probe'.balances[w]
    BY DEF Most, Gain
  <2> QED
    BY <2>1, <2>2, <2>3
<1> HIDE DEF Most, Gain
<1> QED
  BY <1>1, <1>2, <1>b, ReconciliationAssumption, SumCompares

(* A payment raises them by at most 1.                                                    *)
LEMMA SumsRise ==
  ASSUME probe.balances \in Balances, funds \in [Wallet -> Nat], NEW e \in Wallet,
         UNCHANGED probe, funds' = [funds EXCEPT ![e] = @ + 1]
  PROVE  /\ SumOver(Most', Wallet) <= SumOver(Most, Wallet) + 1
         /\ SumOver(Gain', Wallet) <= SumOver(Gain, Wallet) + 1
         /\ SumOver(Others', Wallet) <= SumOver(Others, Wallet) + 1
<1>a. \A w \in Wallet : Others[w] \in Int /\ Others'[w] \in Int
                        /\ Others'[w] <= Others[w] + (IF w = e THEN 1 ELSE 0)
  BY DEF Others
<1>b. SumOver(Others', Wallet) <= SumOver(Others, Wallet) + 1
  <2> HIDE DEF Others
  <2> QED
    BY <1>a, ReconciliationAssumption, SumBumps
<1>1. /\ Most \in [Wallet -> Nat] /\ Gain \in [Wallet -> Nat]
      /\ Most' \in [Wallet -> Nat] /\ Gain' \in [Wallet -> Nat]
  BY DEF Most, Gain, Balances, Amount
<1>2. ASSUME NEW w \in Wallet
      PROVE  /\ Most'[w] <= Most[w] + (IF w = e THEN 1 ELSE 0)
             /\ Gain'[w] <= Gain[w] + (IF w = e THEN 1 ELSE 0)
  <2>1. funds[w] \in Nat /\ funds'[w] = funds[w] + (IF w = e THEN 1 ELSE 0) /\ Unknown \notin Nat
    BY ReconciliationAssumption
  <2>2. probe.balances[w] \in Nat \cup {Unknown}
    BY DEF Balances, Amount
  <2>3. /\ Most[w] = IF probe.balances[w] = Unknown \/ funds[w] >= probe.balances[w]
                            THEN funds[w] ELSE probe.balances[w]
        /\ Most'[w] = IF probe.balances[w] = Unknown \/ funds'[w] >= probe.balances[w]
                            THEN funds'[w] ELSE probe.balances[w]
        /\ Gain[w] = IF probe.balances[w] = Unknown \/ funds[w] <= probe.balances[w]
                            THEN 0 ELSE funds[w] - probe.balances[w]
        /\ Gain'[w] = IF probe.balances[w] = Unknown \/ funds'[w] <= probe.balances[w]
                            THEN 0 ELSE funds'[w] - probe.balances[w]
    BY DEF Most, Gain
  <2> QED
    BY <2>1, <2>2, <2>3
<1>3. \A w \in Wallet : /\ Most[w] \in Int /\ Most'[w] \in Int /\ Gain[w] \in Int /\ Gain'[w] \in Int
  <2>1. \A w \in Wallet : /\ Most[w] \in Nat /\ Most'[w] \in Nat /\ Gain[w] \in Nat /\ Gain'[w] \in Nat
    BY <1>1, Zenon
  <2> QED
    BY <2>1
<1> HIDE DEF Most, Gain
<1> QED
  BY <1>2, <1>3, <1>b, ReconciliationAssumption, SumBumps

LEMMA TotalIsSum ==
  ASSUME NEW balances, \A w \in Wallet : balances[w] # Unknown
  PROVE  Total(balances) = SumOver(balances, Wallet)
<1>1. {w \in Wallet : balances[w] # Unknown} = Wallet
  OBVIOUS
<1> QED
  BY <1>1 DEF Total, SumOver

LEMMA TotalType ==
  ASSUME NEW balances \in Balances
  PROVE  Total(balances) \in Nat
<1> DEFINE S == {w \in Wallet : balances[w] # Unknown}
<1>1. IsFiniteSet(S)
  BY ReconciliationAssumption, FS_Subset
<1>2. \A w \in S : balances[w] \in Nat
  BY DEF Balances, Amount
<1>3. Total(balances) = SumOver(balances, S)
  BY DEF Total, SumOver
<1> HIDE DEF S
<1> QED
  BY <1>1, <1>2, <1>3, SumIsNat

LEMMA MaxOfTwo ==
  ASSUME NEW a \in Nat, NEW b \in Nat
  PROVE  Max({a, b}) = IF a >= b THEN a ELSE b
  BY DEF Max

Merged(saved)   == WithCached(probe.balances, saved.semantic)
Receipts(saved) == Reconciled(saved.receipts, probe.verdicts)
View(saved)     == Settlement(saved.ledger, Receipts(saved), Merged(saved))
Entered(saved)  == Applied(saved.ledger, View(saved), Complete)

LEMMA ViewType ==
  ASSUME probe.balances \in Balances, probe.verdicts \in [Receipt -> Verdict], NEW saved \in Files
  PROVE  /\ Merged(saved) \in Balances /\ Receipts(saved) \in [Receipt -> Verdict]
         /\ View(saved) \in [total : Nat, baseline : Nat, received : Nat, settled : BOOLEAN]
         /\ Entered(saved) \in Ledger
<1>1. saved.semantic = Unknown \/ saved.semantic \in Semantic
  BY DEF Files
<1>2. Merged(saved) \in Balances
  BY <1>1 DEF Merged, WithCached, Semantic, Balances
<1>3. Receipts(saved) \in [Receipt -> Verdict]
  BY DEF Receipts, Reconciled, Files
<1>4. Total(Merged(saved)) \in Nat
  BY <1>2, TotalType
<1>5. saved.ledger \in Ledger
  BY DEF Files
<1>6. View(saved) \in [total : Nat, baseline : Nat, received : Nat, settled : BOOLEAN]
  <2> DEFINE T == Total(Merged(saved))
             b == Baseline(saved.ledger, T)
             r == IF T > b THEN T - b ELSE 0
             s == Expected(Receipts(saved)) > 0 /\ r >= Expected(Receipts(saved))
  <2>1. T \in Nat /\ b \in Nat /\ r \in Nat
    BY <1>4, <1>5 DEF Baseline, Ledger, Amount
  <2>2. s \in BOOLEAN
    OBVIOUS
  <2>3. View(saved) = [total |-> T, baseline |-> b, received |-> r, settled |-> s]
    BY Zenon DEF View, Settlement
  <2> HIDE DEF T, b, r, s
  <2> QED
    BY <2>1, <2>2, <2>3
<1>7. Entered(saved) \in Ledger
  <2>1. CASE ~Complete
    BY <1>5, <2>1 DEF Entered, Applied
  <2>2. CASE Complete
    <3>1. Entered(saved) = [baseline |-> View(saved).baseline, balance |-> View(saved).total,
                           last |-> View(saved).total,
                           received |-> Max({saved.ledger.received, View(saved).received}),
                           settled |-> View(saved).settled]
      BY <2>2 DEF Entered, Applied
    <3>2. Max({saved.ledger.received, View(saved).received}) \in Nat
      <4>1. saved.ledger.received \in Nat /\ View(saved).received \in Nat
        BY <1>5, <1>6 DEF Ledger
      <4> QED
        BY <4>1, MaxOfTwo
    <3> QED
      BY <1>6, <3>1, <3>2 DEF Ledger, Amount
  <2> QED
    BY <2>1, <2>2
<1> QED
  BY <1>2, <1>3, <1>6, <1>7

(* What a run enters has been earned: against the baseline that it sets now or against    *)
(* an older one.                                                                          *)
LEMMA EnteredIsEarned ==
  ASSUME OutcomeInv, probe.pc = "wallets", probe.asked = Wallet
  PROVE  Earned(Entered(probe.disk))
<1> DEFINE saved == probe.disk
<1>0. saved \in Files /\ Earned(saved.ledger) /\ arrived \in Nat
  BY DEF OutcomeInv, Working, OutcomeTypeOK
<1> HIDE DEF saved
<1>1. CASE ~Complete
  BY <1>0, <1>1 DEF Entered, Applied, saved
<1>2. CASE Complete
  <2>1. probe.balances \in Balances /\ funds \in [Wallet -> Nat] /\ probe.verdicts \in [Receipt -> Verdict]
    BY DEF OutcomeInv, OutcomeTypeOK
  <2>2. \A w \in Wallet : probe.balances[w] # Unknown
    BY <1>2 DEF OutcomeInv, Working, Complete
  <2>3. Merged(saved) = probe.balances
    BY <2>1, <2>2 DEF Merged, WithCached, Balances
  <2>4. Total(Merged(saved)) = SumOver(probe.balances, Wallet)
    BY <2>2, <2>3, TotalIsSum
  <2> DEFINE T == SumOver(probe.balances, Wallet)
             b == Baseline(saved.ledger, T)
  <2>5. \A w \in Wallet : /\ probe.balances[w] \in Nat /\ Most[w] \in Nat /\ Gain[w] \in Nat
                          /\ Most[w] = probe.balances[w] + Gain[w] /\ probe.balances[w] <= Most[w]
    BY <2>1, <2>2 DEF Most, Gain, Balances, Amount
  <2>6. SumOver(Most, Wallet) = T + SumOver(Gain, Wallet)
    BY <2>5, ReconciliationAssumption, SumPlus
  <2>7. T \in Nat /\ SumOver(Gain, Wallet) \in Nat /\ SumOver(Most, Wallet) \in Nat
    BY <2>1, <2>5, ReconciliationAssumption, SumIsNat
  <2> HIDE DEF T
  <2>8. SumOver(Gain, Wallet) <= arrived
    BY DEF OutcomeInv, GainArrived
  <2>9. b \in Nat /\ SumOver(Most, Wallet) <= b + arrived
    <3>1. /\ saved.ledger.baseline \in Amount /\ saved.ledger.last \in Amount
          /\ Bounds(saved.ledger.baseline) /\ Bounds(saved.ledger.last)
      BY <1>0 DEF Earned, Files, Ledger
    <3> QED
      BY <1>0, <2>6, <2>7, <2>8, <3>1 DEF Baseline, Bounds, Amount
  <2>10. T <= b + arrived
    BY <1>0, <2>6, <2>7, <2>9
  <2>11. /\ View(saved).baseline = b /\ View(saved).total = T
         /\ View(saved).received = (IF T > b THEN T - b ELSE 0)
    BY <2>4 DEF View, Settlement, T
  <2> HIDE DEF b
  <2>12. View(saved).received \in Nat /\ View(saved).received <= arrived
    BY <1>0, <2>7, <2>9, <2>10, <2>11
  <2>13. /\ Entered(saved).baseline = b /\ Entered(saved).last = T
         /\ Entered(saved).received = Max({saved.ledger.received, View(saved).received})
    BY <1>2, <2>11 DEF Entered, Applied
  <2>14. saved.ledger.received \in Nat /\ saved.ledger.received <= arrived
    BY <1>0 DEF Earned, Files, Ledger
  <2>15. Entered(saved).received <= arrived
    BY <2>12, <2>13, <2>14, MaxOfTwo
  <2>16. Bounds(b) /\ Bounds(T)
    BY <1>0, <2>6, <2>7, <2>8, <2>9 DEF Bounds
  <2> QED
    BY <2>13, <2>15, <2>16 DEF Earned, saved
<1> QED
  BY <1>1, <1>2

LEMMA OthersType ==
  ASSUME funds \in [Wallet -> Nat]
  PROVE  SumOver(Others, Wallet) \in Nat
<1>1. \A w \in Wallet : Others[w] \in Nat
  BY DEF Others
<1> HIDE DEF Others
<1> QED
  BY <1>1, ReconciliationAssumption, SumIsNat

(* A step that pays nothing, and keeps or forgets what the run knows of the wallets, or    *)
(* reads one of them.                                                                     *)
LEMMA UnpaidStep ==
  ASSUME OutcomeInv, arrived' = arrived, OutcomeTypeOK', Working',
         \A w \in Wallet : funds'[w] <= funds[w],
         \A w \in Wallet : probe'.balances[w] \in {probe.balances[w], Unknown, funds[w]},
         repo' = repo \/ (probe.pc # "off" /\ repo' = probe.disk),
         probe'.pc # "off" => \/ probe.pc # "off" /\ probe'.disk = probe.disk
                              \/ probe'.disk = repo
  PROVE  OutcomeInv'
<1>1. /\ probe.balances \in Balances /\ funds \in [Wallet -> Nat] /\ arrived \in Nat
      /\ probe'.balances \in Balances /\ funds' \in [Wallet -> Nat]
  BY DEF OutcomeInv, OutcomeTypeOK
<1>2. /\ SumOver(Most', Wallet) \in Nat /\ SumOver(Most, Wallet) \in Nat
      /\ SumOver(Gain', Wallet) \in Nat /\ SumOver(Gain, Wallet) \in Nat
  <2>1. Most \in [Wallet -> Nat] /\ Gain \in [Wallet -> Nat]
        /\ Most' \in [Wallet -> Nat] /\ Gain' \in [Wallet -> Nat]
    BY <1>1 DEF Most, Gain, Balances, Amount
  <2> HIDE DEF Most, Gain
  <2> QED
    BY <2>1, ReconciliationAssumption, SumIsNat
<1>3. /\ SumOver(Most', Wallet) <= SumOver(Most, Wallet)
      /\ SumOver(Gain', Wallet) <= SumOver(Gain, Wallet)
      /\ SumOver(Others', Wallet) <= SumOver(Others, Wallet)
  BY <1>1, SumsFall
<1>4. GainArrived' /\ OthersArrived'
  <2>1. SumOver(Others', Wallet) \in Int
    <3>1. \A w \in Wallet : Others'[w] \in Int
      BY <1>1 DEF Others
    <3> HIDE DEF Others
    <3> QED
      BY <3>1, ReconciliationAssumption, SumStep
  <2> QED
    BY <1>1, <1>2, <1>3, <2>1, OthersType DEF OutcomeInv, GainArrived, OthersArrived
<1>5. ASSUME NEW ledger \in Ledger, Earned(ledger)
      PROVE  Earned(ledger)'
  BY <1>1, <1>2, <1>3, <1>5 DEF Earned, Bounds, Ledger, Amount
<1>6. repo.ledger \in Ledger /\ Earned(repo.ledger)
  BY DEF OutcomeInv, OutcomeTypeOK
<1>7. probe.pc # "off" => probe.disk.ledger \in Ledger /\ Earned(probe.disk.ledger)
  BY DEF OutcomeInv, Working, Files
<1>8. Earned(repo.ledger)'
  BY <1>5, <1>6, <1>7 DEF Earned, Bounds
<1>9. probe'.pc # "off" => Earned(probe.disk.ledger)'
  BY <1>5, <1>6, <1>7 DEF Earned, Bounds
<1> QED
  BY <1>4, <1>8, <1>9 DEF OutcomeInv

(* The monitor enters the balance of its wallet, above which the other wallets hold at     *)
(* most what has arrived.                                                                *)
LEMMA FollowNext == OutcomeInv /\ Follow => OutcomeInv'
<1> SUFFICES ASSUME OutcomeInv, Follow PROVE OutcomeInv'
  OBVIOUS
<1>1. /\ funds \in [Wallet -> Nat] /\ arrived \in Nat /\ Followed \in Wallet
      /\ probe.balances \in Balances /\ repo \in Files /\ Unknown \notin Nat
      /\ probe.pc = "off" /\ UNCHANGED <<said, funds, arrived, probe>>
  BY ReconciliationAssumption DEF OutcomeInv, OutcomeTypeOK, Working, Follow
<1>2. PICK entered \in {funds[Followed], Unknown} : repo' = [repo EXCEPT !.ledger.last = entered]
  BY DEF Follow
<1>3. /\ repo' \in Files /\ repo'.ledger.last = entered
      /\ repo'.ledger.received = repo.ledger.received
      /\ repo'.ledger.baseline = repo.ledger.baseline
  <2>1. repo.ledger \in Ledger /\ entered \in Amount
    BY <1>1 DEF Files, Amount
  <2>2. /\ [repo.ledger EXCEPT !.last = entered] \in Ledger
        /\ repo' = [repo EXCEPT !.ledger = [repo.ledger EXCEPT !.last = entered]]
    BY <1>1, <1>2, <2>1 DEF Ledger
  <2> QED
    BY <1>1, <2>1, <2>2 DEF Files, Ledger
<1>4. \A w \in Wallet : Most[w] = funds[w]
  BY <1>1 DEF OutcomeInv, Working, Unread, Most
<1>5. SumOver(Most, Wallet) = funds[Followed] + SumOver(Others, Wallet)
  <2> DEFINE own == [w \in Wallet |-> IF w = Followed THEN funds[Followed] ELSE 0]
             only == [w \in {Followed} |-> funds[Followed]]
  <2>1. \A w \in Wallet : own[w] \in Int /\ Others[w] \in Int /\ Most[w] = own[w] + Others[w]
    BY <1>1, <1>4 DEF Others
  <2>2. SumOver(Most, Wallet) = SumOver(own, Wallet) + SumOver(Others, Wallet)
    <3> HIDE DEF own, Most, Others
    <3> QED
      BY <2>1, ReconciliationAssumption, SumPlus
  <2>3. SumOver(own, Wallet) = funds[Followed]
    <3>1. own[Followed] = funds[Followed] /\ \A w \in Wallet \ {Followed} : own[w] = 0
      BY <1>1
    <3> HIDE DEF own
    <3> QED
      <4>1. IsFiniteSet(Wallet \ {Followed})
        BY ReconciliationAssumption, FS_RemoveElement
      <4>2. SumOver(own, Wallet \ {Followed}) = SumOver(own, {})
        BY <3>1, <4>1, SumLeavesOut
      <4> QED
        BY <1>1, <2>1, <3>1, <4>2, ReconciliationAssumption, SumTakes, SumEmpty
  <2> QED
    BY <2>2, <2>3
<1>6. SumOver(Most, Wallet) <= funds[Followed] + arrived
  BY <1>1, <1>5, OthersType DEF OutcomeInv, OthersArrived
<1>7. Most' = Most /\ Gain' = Gain /\ Others' = Others
  BY <1>1 DEF Most, Gain, Others
<1>8. Earned(repo.ledger)'
  BY <1>1, <1>2, <1>3, <1>6, <1>7 DEF OutcomeInv, Earned, Bounds
<1>9. OutcomeTypeOK' /\ Working'
  BY <1>1, <1>3 DEF OutcomeInv, OutcomeTypeOK, Working, Files
<1> QED
  BY <1>1, <1>7, <1>8, <1>9 DEF OutcomeInv, GainArrived, OthersArrived

LEMMA OutcomeInvInit == OutcomeInit => OutcomeInv
<1> SUFFICES ASSUME OutcomeInit PROVE OutcomeInv
  OBVIOUS
<1>1. Unread \in Balances /\ Silent \in [Receipt -> Verdict] /\ Silent \in [Receipt -> Verdict]
  BY UnreadType
<1>2. OutcomeTypeOK /\ Working
  <2>1. repo \in Files
    BY <1>1 DEF OutcomeInit, Files, Ledger, Amount
  <2>2. OutcomeTypeOK
    BY <1>1, <2>1, ReconciliationAssumption DEF OutcomeInit, OutcomeTypeOK, NoProbe, Files
  <2> QED
    BY <1>1, <2>1, <2>2 DEF OutcomeInit, Working, NoProbe
<1>3. \A w \in Wallet : Gain[w] = 0 * 1 /\ Others[w] = 0 * 1
  BY ReconciliationAssumption DEF OutcomeInit, Gain, Others, NoProbe, Unread
<1>4. SumOver(Gain, Wallet) = 0 /\ SumOver(Others, Wallet) = 0
  <2> DEFINE one == [w \in Wallet |-> 1]
  <2>1. \A w \in Wallet : one[w] \in Int /\ Gain[w] = 0 * one[w] /\ Others[w] = 0 * one[w]
    BY <1>3
  <2>2. SumOver(one, Wallet) \in Int
    BY <2>1, ReconciliationAssumption, SumStep
  <2>3. /\ SumOver(Gain, Wallet) = 0 * SumOver(one, Wallet)
        /\ SumOver(Others, Wallet) = 0 * SumOver(one, Wallet)
    BY <2>1, ReconciliationAssumption, SumScales
  <2> QED
    BY <2>2, <2>3
<1>5. GainArrived /\ OthersArrived /\ Earned(repo.ledger)
  BY <1>4 DEF GainArrived, OthersArrived, Earned, Bounds, OutcomeInit
<1>6. probe.pc = "off"
  BY DEF OutcomeInit, NoProbe
<1> QED
  BY <1>2, <1>5, <1>6 DEF OutcomeInv

LEMMA ReconcileNext == OutcomeInv /\ Reconcile => OutcomeInv'
<1> SUFFICES ASSUME OutcomeInv, Reconcile PROVE OutcomeInv'
  OBVIOUS
<1> DEFINE saved == probe.disk
           semantic == [verdicts |-> Receipts(saved), balances |-> Merged(saved),
                        received |-> View(saved).received, settled |-> View(saved).settled]
           entered == [receipts |-> Receipts(saved), ledger |-> Entered(saved),
                       semantic |-> semantic, failed |-> probe.failed]
           kept == [saved EXCEPT !.failed = probe.failed]
<1>1. probe.pc = "wallets" /\ probe.asked = Wallet /\ UNCHANGED <<said, funds, arrived, repo>>
  BY DEF Reconcile
<1>2. PICK d \in {entered, kept} :
        probe' = [probe EXCEPT !.pc = "persist", !.verdicts = Silent, !.disk = d]
  BY Zenon DEF Reconcile, Merged, Receipts, View, Entered
<1>3. /\ saved \in Files /\ probe.failed \subseteq Receipt \cup Wallet /\ probe.balances \in Balances
      /\ probe.verdicts \in [Receipt -> Verdict] /\ funds \in [Wallet -> Nat]
      /\ arrived \in Nat /\ Earned(saved.ledger)
  BY <1>1 DEF OutcomeInv, OutcomeTypeOK, Working
<1> HIDE DEF saved
<1>4. entered \in Files /\ kept \in Files /\ kept.ledger = saved.ledger /\ entered.ledger = Entered(saved)
  <2>1. semantic \in Semantic
    BY <1>3, ViewType DEF Semantic
  <2> HIDE DEF semantic
  <2>2. entered \in Files
    BY <1>3, <2>1, ViewType DEF Files
  <2>3. kept \in Files /\ kept.ledger = saved.ledger
    BY <1>3 DEF Files
  <2> QED
    BY <2>2, <2>3
<1>5. Earned(entered.ledger) /\ Earned(kept.ledger)
  BY <1>1, <1>3, <1>4, EnteredIsEarned DEF saved
<1>6. d \in Files /\ Earned(d.ledger)
  BY <1>4, <1>5
<1> HIDE DEF entered, kept
<1>7. /\ probe'.pc = "persist" /\ probe'.disk = d /\ probe'.balances = probe.balances
      /\ probe'.asked = probe.asked /\ probe'.failed = probe.failed /\ probe'.verdicts = Silent
  BY <1>2 DEF OutcomeInv, Working
<1>8. OutcomeTypeOK' /\ Working'
  <2>1. probe' \in [pc : {"off", "comments", "wallets", "persist"}, asked : SUBSET (Receipt \cup Wallet),
                verdicts : [Receipt -> Verdict], balances : Balances,
                failed : SUBSET (Receipt \cup Wallet), disk : Files \cup {Unknown}]
    BY <1>2, <1>6, UnreadType DEF OutcomeInv, Working
  <2> QED
    BY <1>1, <1>6, <1>7, <2>1, UnreadType DEF OutcomeInv, OutcomeTypeOK, Working
<1>9. Most' = Most /\ Gain' = Gain /\ Others' = Others
  BY <1>1, <1>7 DEF Most, Gain, Others
<1>10. /\ Earned(repo.ledger)' /\ Earned(probe.disk.ledger)'
       /\ GainArrived' /\ OthersArrived'
  BY <1>1, <1>6, <1>7, <1>9 DEF OutcomeInv, Earned, Bounds, GainArrived, OthersArrived
<1> QED
  BY <1>8, <1>10 DEF OutcomeInv

LEMMA PayoutNext ==
  ASSUME OutcomeInv, NEW e \in Wallet, Payout(e)
  PROVE  OutcomeInv'
<1>1. /\ probe.balances \in Balances /\ funds \in [Wallet -> Nat] /\ arrived \in 0..MaxPayouts
      /\ MaxPayouts \in Nat
  BY ReconciliationAssumption DEF OutcomeInv, OutcomeTypeOK
<1>2. /\ funds' = [funds EXCEPT ![e] = @ + 1] /\ arrived' = arrived + 1 /\ arrived < MaxPayouts
      /\ UNCHANGED <<said, repo, probe>>
  BY DEF Payout
<1>3. OutcomeTypeOK' /\ Working'
  BY <1>1, <1>2 DEF OutcomeInv, OutcomeTypeOK, Working
<1>4. /\ SumOver(Most', Wallet) <= SumOver(Most, Wallet) + 1
      /\ SumOver(Gain', Wallet) <= SumOver(Gain, Wallet) + 1
      /\ SumOver(Others', Wallet) <= SumOver(Others, Wallet) + 1
  BY <1>1, <1>2, SumsRise
<1>5. /\ SumOver(Most', Wallet) \in Nat /\ SumOver(Most, Wallet) \in Nat
      /\ SumOver(Gain', Wallet) \in Nat /\ SumOver(Gain, Wallet) \in Nat
  <2>1. Most \in [Wallet -> Nat] /\ Gain \in [Wallet -> Nat]
        /\ Most' \in [Wallet -> Nat] /\ Gain' \in [Wallet -> Nat]
    BY <1>1, <1>2 DEF Most, Gain, Balances, Amount
  <2> HIDE DEF Most, Gain
  <2> QED
    BY <2>1, ReconciliationAssumption, SumIsNat
<1>6. ASSUME NEW ledger \in Ledger, Earned(ledger)
      PROVE  Earned(ledger)'
  BY <1>1, <1>2, <1>4, <1>5, <1>6 DEF Earned, Bounds, Ledger, Amount
<1>7. Earned(repo.ledger)'
  BY <1>2, <1>6 DEF Earned, Bounds, OutcomeInv, OutcomeTypeOK
<1>8. probe'.pc # "off" => Earned(probe.disk.ledger)'
  BY <1>2, <1>6 DEF Earned, Bounds, OutcomeInv, Working, Files
<1>9. GainArrived' /\ OthersArrived'
  <2>1. SumOver(Others, Wallet) \in Nat /\ SumOver(Others', Wallet) \in Int
    <3>1. \A w \in Wallet : Others'[w] \in Int
      BY <1>1, <1>2 DEF Others
    <3> HIDE DEF Others
    <3> QED
      BY <1>1, <3>1, OthersType, ReconciliationAssumption, SumStep
  <2> QED
    BY <1>1, <1>2, <1>4, <1>5, <2>1 DEF OutcomeInv, GainArrived, OthersArrived
<1> QED
  BY <1>3, <1>7, <1>8, <1>9 DEF OutcomeInv

LEMMA OutcomeInvNext == OutcomeInv /\ [OutcomeNext]_outcome => OutcomeInv'
<1> SUFFICES ASSUME OutcomeInv, [OutcomeNext]_outcome PROVE OutcomeInv'
  OBVIOUS
<1> DEFINE PCs == {"off", "comments", "wallets", "persist"}
           Probes == [pc : PCs, asked : SUBSET (Receipt \cup Wallet),
                verdicts : [Receipt -> Verdict], balances : Balances,
                failed : SUBSET (Receipt \cup Wallet), disk : Files \cup {Unknown}]
<1>0. /\ said \in [Receipt -> Verdict] /\ funds \in [Wallet -> Nat] /\ probe \in Probes /\ repo \in Files
      /\ arrived \in Nat /\ arrived \in 0..MaxPayouts
  BY DEF OutcomeInv, OutcomeTypeOK, Working
<1>a. NoProbe \in Probes /\ NoProbe.pc = "off" /\ NoProbe.balances = Unread
  BY UnreadType DEF NoProbe
<1>b. \A w \in Wallet : Unread[w] = Unknown
  BY DEF Unread
<1>1. ASSUME NEW r \in Receipt, Comment(r) PROVE OutcomeInv'
  <2>1. said' \in [Receipt -> Verdict]
    BY <1>0, <1>1 DEF Comment, Later, Verdict
  <2>2. OutcomeTypeOK' /\ Working'
    BY <1>1, <2>1 DEF Comment, OutcomeInv, OutcomeTypeOK, Working
  <2> QED
    BY <1>0, <1>1, <2>2, UnpaidStep DEF Comment
<1>2. ASSUME NEW r \in Receipt, ReadComments(r) PROVE OutcomeInv'
  <2>1. said[r] \in Verdict
    BY <1>0
  <2>2. /\ probe' \in Probes /\ probe'.pc = "comments" /\ probe'.balances = probe.balances
        /\ probe'.disk = probe.disk /\ probe.pc = "comments"
    <3>1. \/ probe' = [probe EXCEPT !.asked = @ \cup {r}, !.verdicts[r] = said[r]]
          \/ probe' = [probe EXCEPT !.asked = @ \cup {r}, !.failed = @ \cup {r}]
      BY <1>2 DEF ReadComments
    <3>2. probe.pc = "comments"
      BY <1>2 DEF ReadComments
    <3>3. CASE probe' = [probe EXCEPT !.asked = @ \cup {r}, !.verdicts[r] = said[r]]
      <4>1. [probe.verdicts EXCEPT ![r] = said[r]] \in [Receipt -> Verdict]
        BY <1>0, <2>1
      <4> QED
        BY <1>0, <3>2, <3>3, <4>1
    <3>4. CASE probe' = [probe EXCEPT !.asked = @ \cup {r}, !.failed = @ \cup {r}]
      BY <1>0, <3>2, <3>4
    <3> QED
      BY <3>1, <3>3, <3>4
  <2>3. UNCHANGED <<said, funds, arrived, repo>>
    BY <1>2 DEF ReadComments
  <2>4. OutcomeTypeOK' /\ Working'
    BY <2>2, <2>3 DEF OutcomeInv, OutcomeTypeOK, Working
  <2> QED
    BY <1>0, <2>2, <2>3, <2>4, UnpaidStep
<1>3. ASSUME NEW w \in Wallet, Payout(w) PROVE OutcomeInv'
  BY <1>3, PayoutNext
<1>4. ASSUME NEW w \in Wallet, Spend(w) PROVE OutcomeInv'
  <2>1. /\ funds' = [funds EXCEPT ![w] = @ - 1] /\ funds[w] > 0
        /\ UNCHANGED <<said, arrived, repo, probe>>
    BY <1>4 DEF Spend
  <2>2. funds' \in [Wallet -> Nat] /\ \A v \in Wallet : funds'[v] <= funds[v]
    BY <1>0, <2>1
  <2>3. OutcomeTypeOK' /\ Working'
    BY <2>1, <2>2 DEF OutcomeInv, OutcomeTypeOK, Working
  <2> QED
    BY <2>1, <2>2, <2>3, UnpaidStep
<1>5. ASSUME NEW w \in Wallet, ReadWallet(w) PROVE OutcomeInv'
  <2>1. funds[w] \in Amount
    BY <1>0 DEF Amount
  <2>2. /\ probe' \in Probes /\ probe'.pc = "wallets" /\ probe'.disk = probe.disk
        /\ probe.pc = "wallets" /\ UNCHANGED <<said, funds, arrived, repo>>
        /\ probe'.asked = probe.asked \cup {w}
    <3>1. \/ probe' = [probe EXCEPT !.asked = @ \cup {w}, !.balances[w] = funds[w]]
          \/ probe' = [probe EXCEPT !.asked = @ \cup {w}, !.failed = @ \cup {w}]
      BY <1>5 DEF ReadWallet
    <3>2. probe.pc = "wallets" /\ UNCHANGED <<said, funds, arrived, repo>>
      BY <1>5 DEF ReadWallet
    <3>3. CASE probe' = [probe EXCEPT !.asked = @ \cup {w}, !.balances[w] = funds[w]]
      <4>1. [probe.balances EXCEPT ![w] = funds[w]] \in Balances
        BY <1>0, <2>1 DEF Balances
      <4> QED
        BY <1>0, <3>2, <3>3, <4>1
    <3>4. CASE probe' = [probe EXCEPT !.asked = @ \cup {w}, !.failed = @ \cup {w}]
      BY <1>0, <3>2, <3>4
    <3> QED
      BY <3>1, <3>3, <3>4
  <2>3. \/ probe'.balances = [probe.balances EXCEPT ![w] = funds[w]] /\ probe'.failed = probe.failed
        \/ probe'.balances = probe.balances /\ probe'.failed = probe.failed \cup {w}
    BY <1>0, <1>5 DEF ReadWallet
  <2>4. funds[w] # Unknown /\ probe.balances \in Balances
    BY <1>0, ReconciliationAssumption
  <2>5. \A v \in Wallet : probe'.balances[v] \in {probe.balances[v], Unknown, funds[v]}
    BY <2>3, <2>4 DEF Balances
  <2>6. \A v \in probe'.asked \cap Wallet : v \in probe'.failed \/ probe'.balances[v] # Unknown
    <3>1. \A v \in probe.asked \cap Wallet : v \in probe.failed \/ probe.balances[v] # Unknown
      BY <2>2 DEF OutcomeInv, Working
    <3> QED
      BY <2>2, <2>3, <2>4, <3>1 DEF Balances
  <2>7. probe'.disk \in Files
    BY <2>2 DEF OutcomeInv, Working
  <2>8. OutcomeTypeOK' /\ Working'
    BY <2>2, <2>6, <2>7 DEF OutcomeInv, OutcomeTypeOK, Working
  <2> QED
    BY <1>0, <2>2, <2>5, <2>8, UnpaidStep
<1>6. ASSUME StartProbe PROVE OutcomeInv'
  <2>1. /\ probe' \in Probes /\ probe'.pc = "comments" /\ probe'.balances = Unread
        /\ probe'.disk = repo /\ UNCHANGED <<said, funds, arrived, repo>>
    BY <1>0, <1>6, UnreadType DEF StartProbe, NoProbe
  <2>2. OutcomeTypeOK' /\ Working'
    BY <1>0, <2>1 DEF OutcomeInv, OutcomeTypeOK, Working
  <2> QED
    BY <1>0, <1>b, <2>1, <2>2, UnpaidStep
<1>7. ASSUME RepositoryFails PROVE OutcomeInv'
  <2>1. /\ probe' \in Probes /\ probe'.pc = "comments" /\ probe'.balances = probe.balances
        /\ probe'.disk = probe.disk /\ probe.pc = "comments" /\ UNCHANGED <<said, funds, arrived, repo>>
    BY <1>0, <1>7 DEF RepositoryFails
  <2>2. OutcomeTypeOK' /\ Working'
    BY <2>1 DEF OutcomeInv, OutcomeTypeOK, Working
  <2> QED
    BY <1>0, <2>1, <2>2, UnpaidStep
<1>8. ASSUME CommentsRead PROVE OutcomeInv'
  <2>1. /\ probe' \in Probes /\ probe'.pc = "wallets" /\ probe'.balances = probe.balances
        /\ probe'.asked = {} /\ probe'.disk = probe.disk /\ probe.pc = "comments"
        /\ UNCHANGED <<said, funds, arrived, repo>>
    BY <1>0, <1>8 DEF CommentsRead
  <2>2. OutcomeTypeOK' /\ Working'
    BY <2>1 DEF OutcomeInv, OutcomeTypeOK, Working
  <2> QED
    BY <1>0, <2>1, <2>2, UnpaidStep
<1>9. ASSUME Persist PROVE OutcomeInv'
  <2>1. /\ probe' \in Probes /\ probe'.pc = "off" /\ probe'.balances = Unread /\ probe.pc = "persist"
        /\ repo' = probe.disk /\ UNCHANGED <<said, funds, arrived>>
    BY <1>9, <1>a DEF Persist
  <2>2. repo' \in Files
    BY <2>1 DEF OutcomeInv, Working
  <2>3. OutcomeTypeOK' /\ Working'
    BY <1>0, <2>1, <2>2 DEF OutcomeInv, OutcomeTypeOK, Working, Files
  <2> QED
    BY <1>0, <1>b, <2>1, <2>3, UnpaidStep
<1>10. ASSUME RunFails PROVE OutcomeInv'
  <2>1. /\ probe' \in Probes /\ probe'.pc = "off" /\ probe'.balances = Unread
        /\ UNCHANGED <<said, funds, arrived, repo>>
    BY <1>10, <1>a DEF RunFails
  <2>2. OutcomeTypeOK' /\ Working'
    BY <1>0, <2>1 DEF OutcomeInv, OutcomeTypeOK, Working
  <2> QED
    BY <1>0, <1>b, <2>1, <2>2, UnpaidStep
<1>11. CASE UNCHANGED outcome
  <2>1. OutcomeTypeOK' /\ Working'
    BY <1>11 DEF outcome, OutcomeInv, OutcomeTypeOK, Working
  <2> QED
    BY <1>0, <1>11, <2>1, UnpaidStep DEF outcome
<1> QED
  BY <1>1, <1>2, <1>3, <1>4, <1>5, <1>6, <1>7, <1>8, <1>9, <1>10, <1>11, FollowNext,
     ReconcileNext DEF OutcomeNext

(* The ledgers, the wallets and the run under way keep their shape.                       *)
THEOREM OutcomeTypeCorrect == OutcomeSpec => []OutcomeTypeOK
<1>1. OutcomeInv => OutcomeTypeOK
  BY DEF OutcomeInv
<1> QED
  BY <1>1, OutcomeInvInit, OutcomeInvNext, PTL DEF OutcomeSpec

(* Revenue is never invented, for every set of wallets, whatever they held before and      *)
(* whatever is paid and spent while they are read one by one, and with any reads failing.  *)
THEOREM RevenueIsReceivedHolds == OutcomeSpec => []RevenueIsReceived
<1>1. OutcomeInv => RevenueIsReceived
  BY DEF OutcomeInv, Earned, RevenueIsReceived
<1> QED
  BY <1>1, OutcomeInvInit, OutcomeInvNext, PTL DEF OutcomeSpec

--------------------------------------------------------------------------------
(* The tested submission, for every set of tasks, capabilities and policies.            *)

Attempt ==
  [phase : RunPhases, registry : [Task -> Verdicts], cause : Causes,
   workspace : Change \cup {Nil}, package : Package \cup {Nil},
   receipts : Seq(1..MaxPulls),
   diagnosis : {"none", "policy", "missing"} \cup Diagnoses, policy : Policies]
Pull == [change : Change, branch : Change \X Nat, state : {"open", "closed", "merged"}]

(* The branch of a pull request is that of its patch, there are no more of them than   *)
(* the bound, and a run that is about to comment has opened one.                     *)
PullsFit ==
  /\ Len(pulls) <= MaxPulls
  /\ \A n \in DOMAIN pulls : pulls[n].branch = Branch(pulls[n].change)
  /\ attempt.phase = "comment" => Len(pulls) > 0

SubmissionInv == SubmissionTypeOK /\ PullsFit /\ OneOpenPullRequest

LEMMA ProceedsType ==
  ASSUME NEW c \in Attempt, NEW phase \in RunPhases, Proceeds(c, phase)
  PROVE  attempt' \in Attempt /\ attempt'.phase = phase
  BY DEF Proceeds, Attempt

(* A run begins, and ends, with nothing but a policy.                                *)
LEMMA NoRunType == NoRun \in Attempt /\ NoRun.phase = "idle"
<1>1. (CHOOSE p \in Policies : TRUE) \in Policies
  BY PolicyAssumption
<1>2. [t \in Task |-> "absent"] \in [Task -> Verdicts]
  BY DEF Verdicts
<1> QED
  BY <1>1, <1>2 DEF NoRun, Attempt, RunPhases, Causes

(* What the scripts before the submitter do to the run.                              *)
LEMMA ScoutType ==
  ASSUME attempt \in Attempt, Scout PROVE attempt' \in Attempt /\ attempt'.phase = "build"
<1>1. PICK found \in SUBSET Task :
        Proceeds([attempt EXCEPT
               !.registry = [t \in Task |-> IF t \in found THEN "listed" ELSE "absent"],
               !.cause = IF found = {} THEN "undiscovered" ELSE "none"], "build")
  BY DEF Scout
<1> DEFINE r == [t \in Task |-> IF t \in found THEN "listed" ELSE "absent"]
           k == IF found = {} THEN "undiscovered" ELSE "none"
           c == [attempt EXCEPT !.registry = r, !.cause = k]
<1>2. r \in [Task -> Verdicts] /\ k \in Causes
  BY DEF Verdicts, Causes
<1>3. c \in Attempt
  <2> HIDE DEF r, k
  <2> QED
    BY <1>2 DEF Attempt
<1>4. Proceeds(c, "build")
  BY <1>1
<1> HIDE DEF c
<1> QED
  BY <1>3, <1>4, ProceedsType DEF RunPhases

LEMMA BuilderType ==
  ASSUME attempt \in Attempt, BuildTargetPatch
  PROVE  attempt' \in Attempt /\ attempt'.phase = "package"
<1>1. ASSUME NEW r \in [Task -> Verdicts], NEW k \in Causes, NEW w \in Change \cup {Nil},
             Proceeds([attempt EXCEPT !.registry = r, !.cause = k, !.workspace = w], "package")
      PROVE  attempt' \in Attempt /\ attempt'.phase = "package"
  <2>1. [attempt EXCEPT !.registry = r, !.cause = k, !.workspace = w] \in Attempt
    BY DEF Attempt
  <2> QED
    BY <1>1, <2>1, ProceedsType DEF RunPhases
<1>2. CASE PatchBuilt
  <2>0. PICK candidates \in SUBSET Allowed : \E t \in candidates :
          \E change \in PatchesOf(t), r \in Tried(candidates) :
          Proceeds([attempt EXCEPT !.registry = r, !.cause = "none", !.workspace = change],
                   "package")
    BY <1>2 DEF PatchBuilt
  <2>1. PICK t \in candidates : \E change \in PatchesOf(t), r \in Tried(candidates) :
          Proceeds([attempt EXCEPT !.registry = r, !.cause = "none", !.workspace = change],
                   "package")
    BY <2>0
  <2>2. PICK change \in PatchesOf(t), r \in Tried(candidates) :
          Proceeds([attempt EXCEPT !.registry = r, !.cause = "none", !.workspace = change],
                   "package")
    BY <2>1
  <2>3. r \in [Task -> Verdicts] /\ change \in Change \cup {Nil} /\ "none" \in Causes
    BY DEF Tried, PatchesOf, Causes
  <2> QED
    BY <1>1, <2>2, <2>3
<1>3. CASE NothingBuilt
  <2>1. PICK r \in Tried(Allowed) :
          Proceeds([attempt EXCEPT !.registry = r,
            !.cause = CASE Allowed # {} -> "pivot"
                        [] Listed # {} /\ Allowed = {} -> "policy"
                        [] OTHER -> @], "package")
    BY <1>3 DEF NothingBuilt
  <2> DEFINE k == CASE Allowed # {} -> "pivot"
                    [] Listed # {} /\ Allowed = {} -> "policy"
                    [] OTHER -> attempt.cause
  <2>2. r \in [Task -> Verdicts] /\ k \in Causes
    BY DEF Tried, Attempt, Causes
  <2>3. Proceeds([attempt EXCEPT !.registry = r, !.cause = k], "package")
    BY <2>1
  <2>4. [attempt EXCEPT !.registry = r, !.cause = k] \in Attempt
    <3> HIDE DEF k
    <3> QED
      BY <2>2 DEF Attempt
  <2> HIDE DEF k
  <2> QED
    BY <2>3, <2>4, ProceedsType DEF RunPhases
<1> QED
  BY <1>2, <1>3 DEF BuildTargetPatch

LEMMA PackagerType ==
  ASSUME attempt \in Attempt, BuildPackage
  PROVE  attempt' \in Attempt /\ attempt'.phase = "submit"
<1>1. [attempt EXCEPT !.package = Nil] \in Attempt
  BY DEF Attempt
<1>2. ASSUME attempt.workspace # Nil PROVE Packaged \in Attempt
  <2>1. [change |-> attempt.workspace, mode |-> attempt.policy.mode] \in Package
    BY <1>2, PolicyAssumption DEF Attempt, Package, Policy
  <2>2. [attempt EXCEPT !.package = [change |-> attempt.workspace, mode |-> attempt.policy.mode]]
          \in Attempt
    BY <2>1 DEF Attempt
  <2> QED
    BY <1>1, <2>2 DEF Packaged, Blocked
<1> DEFINE c == CASE ~attempt.policy.open -> Blocked(attempt)
            [] attempt.policy.open /\ NothingFound -> [attempt EXCEPT !.package = Nil]
            [] attempt.policy.open /\ ~NothingFound /\ attempt.workspace = Nil -> attempt
            [] OTHER -> Packaged
<1>3. c \in Attempt
  <2>1. attempt.policy.open \in BOOLEAN
    BY PolicyAssumption DEF Attempt, Policy
  <2> QED
    BY <1>1, <1>2, <2>1 DEF Blocked
<1>4. Proceeds(c, "submit")
  BY DEF BuildPackage
<1> HIDE DEF c
<1> QED
  BY <1>3, <1>4, ProceedsType DEF RunPhases

(* What a run leaves of the pull requests, if it opens none.                         *)
LEMMA QuietStep ==
  ASSUME SubmissionInv, results' = results, policy' \in Policies, pulls' = pulls,
         attempt' \in Attempt, attempt'.phase = "comment" => attempt.phase = "comment"
  PROVE  SubmissionInv'
  BY DEF SubmissionInv, SubmissionTypeOK, PullsFit, OneOpenPullRequest, Attempt, Branch

LEMMA SubmitterNext ==
  ASSUME SubmissionInv, OpenPullRequest PROVE SubmissionInv'
<1> DEFINE change == attempt.package.change
           new == [change |-> change, branch |-> Branch(change), state |-> "open"]
<1>1. attempt \in Attempt /\ pulls \in Seq(Pull) /\ MaxPulls \in Nat
  BY PullsAssumption DEF SubmissionInv, SubmissionTypeOK, Attempt, Pull
<1>2. attempt.package \in Package
  BY <1>1 DEF OpenPullRequest, AcceptsPackage, Attempt
<1>3. change \in Change
  BY <1>2 DEF Package
<1>4. new \in Pull /\ new.change = change /\ new.branch = Branch(change) /\ new.state = "open"
  BY <1>3 DEF Pull, Branch
<1>5. pulls' = Append(pulls, new) /\ GitHubOpens(Branch(change))
  BY DEF OpenPullRequest
<1> HIDE DEF new, change
<1>6. /\ pulls' \in Seq(Pull) /\ Len(pulls') = Len(pulls) + 1
      /\ DOMAIN pulls' = 1 .. Len(pulls) + 1 /\ DOMAIN pulls = 1 .. Len(pulls)
      /\ pulls'[Len(pulls) + 1] = new /\ \A n \in DOMAIN pulls : pulls'[n] = pulls[n]
  BY <1>1, <1>4, <1>5
<1>7. attempt' \in Attempt /\ attempt'.phase = "comment"
  <2>1. Proceeds(attempt, "comment") /\ "comment" \in RunPhases
    BY DEF OpenPullRequest, RunPhases
  <2> QED
    BY <1>1, <2>1, ProceedsType
<1>8. SubmissionTypeOK'
  <2>1. results' = results /\ policy' = policy
    BY DEF OpenPullRequest
  <2> QED
    BY <1>6, <1>7, <2>1 DEF SubmissionInv, SubmissionTypeOK, Attempt, Pull
<1>9. PullsFit'
  <2>1. Len(pulls) < MaxPulls /\ Len(pulls) \in Nat
    BY <1>1, <1>5 DEF GitHubOpens
  <2>2. ASSUME NEW n \in DOMAIN pulls' PROVE pulls'[n].branch = Branch(pulls'[n].change)
    <3>1. CASE n \in DOMAIN pulls
      BY <1>6, <3>1 DEF SubmissionInv, PullsFit
    <3>2. CASE n = Len(pulls) + 1
      BY <1>4, <1>6, <3>2
    <3> QED
      BY <1>1, <1>6, <3>1, <3>2, <2>1
  <2> QED
    BY <1>1, <1>6, <2>1, <2>2 DEF PullsFit, Branch
<1>10. OneOpenPullRequest'
  <2>1. ASSUME NEW n \in DOMAIN pulls, pulls[n].state = "open" PROVE pulls[n].change # change
    <3>1. pulls[n].branch # Branch(change)
      BY <1>5, <2>1 DEF GitHubOpens
    <3> QED
      BY <3>1 DEF SubmissionInv, PullsFit
  <2>2. ASSUME NEW m \in DOMAIN pulls', NEW n \in DOMAIN pulls',
               pulls'[m].change = pulls'[n].change,
               pulls'[m].state = "open", pulls'[n].state = "open"
        PROVE  m = n
    <3>1. \A k \in DOMAIN pulls' : k \in DOMAIN pulls \/ k = Len(pulls) + 1
      <4>1. Len(pulls) \in Nat
        BY <1>1
      <4> QED
        BY <1>6, <4>1
    <3>2. CASE m \in DOMAIN pulls /\ n \in DOMAIN pulls
      BY <1>6, <2>2, <3>2 DEF SubmissionInv, OneOpenPullRequest
    <3>3. CASE m \in DOMAIN pulls /\ n = Len(pulls) + 1
      BY <1>4, <1>6, <2>1, <2>2, <3>3
    <3>4. CASE m = Len(pulls) + 1 /\ n \in DOMAIN pulls
      BY <1>4, <1>6, <2>1, <2>2, <3>4
    <3> QED
      BY <3>1, <3>2, <3>3, <3>4
  <2> QED
    BY <2>2 DEF OneOpenPullRequest
<1> QED
  BY <1>8, <1>9, <1>10 DEF SubmissionInv

LEMMA MaintainerNext ==
  ASSUME SubmissionInv, MaintainerDecides PROVE SubmissionInv'
<1>1. PICK n \in DOMAIN pulls, s \in {"closed", "merged"} :
        pulls[n].state = "open" /\ pulls' = [pulls EXCEPT ![n].state = s]
  BY DEF MaintainerDecides
<1>2. pulls \in Seq(Pull) /\ n \in 1 .. Len(pulls) /\ DOMAIN pulls = 1 .. Len(pulls)
  BY DEF SubmissionInv, SubmissionTypeOK, Pull
<1> DEFINE p == [pulls[n] EXCEPT !.state = s]
<1>3. p \in Pull /\ p.change = pulls[n].change /\ p.branch = pulls[n].branch /\ p.state = s
  <2>1. pulls[n] \in Pull
    BY <1>2
  <2> QED
    BY <2>1 DEF Pull
<1>4. pulls' = [pulls EXCEPT ![n] = p]
  BY <1>1
<1> HIDE DEF p
<1>5. /\ pulls' \in Seq(Pull) /\ Len(pulls') = Len(pulls) /\ DOMAIN pulls' = DOMAIN pulls
      /\ pulls'[n] = p /\ \A m \in DOMAIN pulls \ {n} : pulls'[m] = pulls[m]
  BY <1>2, <1>3, <1>4
<1>6. \A m \in DOMAIN pulls :
        /\ pulls'[m].change = pulls[m].change /\ pulls'[m].branch = pulls[m].branch
        /\ pulls'[m].state = "open" => pulls[m].state = "open"
  BY <1>3, <1>5
<1>7. results' = results /\ policy' = policy /\ attempt' = attempt
  BY DEF MaintainerDecides
<1>8. SubmissionTypeOK'
  BY <1>5, <1>7 DEF SubmissionInv, SubmissionTypeOK, Pull
<1>9. PullsFit' /\ OneOpenPullRequest'
  BY <1>5, <1>6, <1>7 DEF SubmissionInv, PullsFit, OneOpenPullRequest, Branch
<1> QED
  BY <1>8, <1>9 DEF SubmissionInv

LEMMA SubmissionInvNext == SubmissionInv /\ [SubmissionNext]_submission => SubmissionInv'
<1> SUFFICES ASSUME SubmissionInv, [SubmissionNext]_submission PROVE SubmissionInv'
  OBVIOUS
<1>t. /\ attempt \in Attempt /\ policy \in Policies
      /\ results \in [workspace : Change \cup {Nil}, package : Package \cup {Nil},
                      receipts : Seq(1..MaxPulls)]
  BY DEF SubmissionInv, SubmissionTypeOK, Attempt
<1>1. CASE CheckoutResults
  <2> DEFINE c == [NoRun EXCEPT !.workspace = results.workspace, !.package = results.package,
                        !.receipts = results.receipts, !.policy = policy]
  <2>1. c \in Attempt
    <3>1. NoRun \in Attempt
      BY NoRunType
    <3> QED
      BY <1>t, <3>1 DEF Attempt
  <2>2. Proceeds(c, "scout") /\ UNCHANGED <<results, policy, pulls>>
    BY <1>1 DEF CheckoutResults
  <2> HIDE DEF c
  <2>3. attempt' \in Attempt /\ attempt'.phase = "scout"
    BY <2>1, <2>2, ProceedsType DEF RunPhases
  <2> QED
    BY <1>t, <2>2, <2>3, QuietStep
<1>2. CASE Scout \/ BuildTargetPatch \/ BuildPackage
  <2>1. attempt' \in Attempt /\ attempt'.phase # "comment"
    BY <1>t, <1>2, ScoutType, BuilderType, PackagerType
  <2>2. UNCHANGED <<results, policy, pulls>>
    BY <1>2 DEF Scout, BuildTargetPatch, BuildPackage
  <2> QED
    BY <1>t, <2>1, <2>2, QuietStep
<1>3. CASE Refuse \/ SubmissionFails \/ MonitorSubmission
  <2>1. \A d \in {"none", "policy", "missing"} \cup Diagnoses :
          [attempt EXCEPT !.diagnosis = d] \in Attempt
    BY <1>t DEF Attempt
  <2>2. \E c \in Attempt, phase \in {"monitor", "persist"} : Proceeds(c, phase)
    <3>1. CASE Refuse
      BY <2>1, <3>1 DEF Refuse
    <3>2. CASE SubmissionFails
      BY <2>1, <3>2 DEF SubmissionFails
    <3>3. CASE MonitorSubmission
      BY <1>t, <3>3 DEF MonitorSubmission
    <3> QED
      BY <1>3, <3>1, <3>2, <3>3
  <2>3. attempt' \in Attempt /\ attempt'.phase # "comment"
    BY <2>2, ProceedsType DEF RunPhases
  <2>4. UNCHANGED <<results, policy, pulls>>
    BY <1>3 DEF Refuse, SubmissionFails, MonitorSubmission
  <2> QED
    BY <1>t, <2>3, <2>4, QuietStep
<1>4. CASE OpenPullRequest
  BY <1>4, SubmitterNext
<1>5. CASE CommentOnIssue
  <2>1. Len(pulls) \in 1 .. MaxPulls
    <3>1. Len(pulls) \in Nat
      BY DEF SubmissionInv, SubmissionTypeOK
    <3> QED
      BY <1>5, <3>1, PullsAssumption DEF CommentOnIssue, SubmissionInv, PullsFit
  <2>2. [attempt EXCEPT !.receipts = Append(@, Len(pulls))] \in Attempt
    <3>1. Append(attempt.receipts, Len(pulls)) \in Seq(1 .. MaxPulls)
      BY <1>t, <2>1 DEF Attempt
    <3> QED
      BY <1>t, <3>1 DEF Attempt
  <2>3. \A d \in Diagnoses : [attempt EXCEPT !.diagnosis = d] \in Attempt
    BY <1>t DEF Attempt
  <2>4. \E c \in Attempt : Proceeds(c, "monitor")
    BY <1>5, <2>2, <2>3 DEF CommentOnIssue
  <2>5. attempt' \in Attempt /\ attempt'.phase = "monitor"
    BY <2>4, ProceedsType DEF RunPhases
  <2>6. UNCHANGED <<results, policy, pulls>>
    BY <1>5 DEF CommentOnIssue
  <2> QED
    BY <1>t, <2>5, <2>6, QuietStep
<1>6. CASE PersistEvidence
  <2>1. attempt' \in Attempt /\ attempt'.phase = "idle" /\ policy' = policy /\ pulls' = pulls
    BY <1>6, NoRunType DEF PersistEvidence
  <2>2. results' \in [workspace : Change \cup {Nil}, package : Package \cup {Nil},
                      receipts : Seq(1..MaxPulls)]
    BY <1>6, <1>t DEF PersistEvidence, Attempt
  <2>3. SubmissionTypeOK'
    BY <2>1, <2>2 DEF SubmissionInv, SubmissionTypeOK, Attempt
  <2>4. PullsFit' /\ OneOpenPullRequest'
    BY <2>1 DEF SubmissionInv, PullsFit, OneOpenPullRequest, Branch
  <2> QED
    BY <2>3, <2>4 DEF SubmissionInv
<1>7. CASE CycleLost
  <2>1. attempt' \in Attempt /\ attempt'.phase = "idle" /\ UNCHANGED <<results, policy, pulls>>
    BY <1>7, NoRunType DEF CycleLost
  <2> QED
    BY <1>t, <2>1, QuietStep
<1>8. CASE MaintainerDecides
  BY <1>8, MaintainerNext
<1>9. CASE OwnerChangesPolicy \/ UNCHANGED submission
  <2>1. attempt' = attempt /\ results' = results /\ pulls' = pulls /\ policy' \in Policies
    BY <1>9, <1>t DEF OwnerChangesPolicy, submission
  <2> QED
    BY <1>t, <2>1, QuietStep
<1> QED
  BY <1>1, <1>2, <1>3, <1>4, <1>5, <1>6, <1>7, <1>8, <1>9 DEF SubmissionNext, CycleStep

LEMMA SubmissionInvInit == SubmissionInit => SubmissionInv
<1> SUFFICES ASSUME SubmissionInit PROVE SubmissionInv
  OBVIOUS
<1>1. attempt \in Attempt /\ attempt.phase = "idle" /\ pulls = <<>> /\ policy \in Policies
  BY NoRunType DEF SubmissionInit
<1>2. results = [workspace |-> Nil, package |-> Nil, receipts |-> <<>>] /\ <<>> \in Seq(1..MaxPulls)
  BY DEF SubmissionInit
<1>3. SubmissionTypeOK
  BY <1>1, <1>2 DEF SubmissionTypeOK, Attempt
<1>4. PullsFit /\ OneOpenPullRequest
  BY <1>1, PullsAssumption DEF PullsFit, OneOpenPullRequest
<1> QED
  BY <1>3, <1>4 DEF SubmissionInv

(* The commit, the checkout and GitHub keep their shape.                             *)
THEOREM TestedTypeCorrect == SubmissionSpec => []SubmissionTypeOK
<1>1. SubmissionInv => SubmissionTypeOK
  BY DEF SubmissionInv
<1> QED
  BY <1>1, SubmissionInvInit, SubmissionInvNext, PTL DEF SubmissionSpec

(* Lost receipts, lost runs and repetitions do not open the same patch twice at the    *)
(* same time, for any tasks, patches and policies.                                   *)
THEOREM OneOpenPullRequestHolds == SubmissionSpec => []OneOpenPullRequest
<1>1. SubmissionInv => OneOpenPullRequest
  BY DEF SubmissionInv
<1> QED
  BY <1>1, SubmissionInvInit, SubmissionInvNext, PTL DEF SubmissionSpec

--------------------------------------------------------------------------------
(* The external actions, for every queue of prepared actions and any overlap of their runs. *)

(* The types: what a comment that is accepted adds to the approvals.                     *)

LEMMA ResolvedIsCandidate ==
  ASSUME thread \in Seq(OwnerCommand \cup {Report}), files \in LedgerFiles,
         NEW i \in 1 .. Len(thread), thread[i] # Report
  PROVE  Resolve(i) \subseteq Cand
<1>1. files.listing \in Seq(Cand)
  BY DEF LedgerFiles
<1>2. ListedCandidates \subseteq Cand
  BY <1>1 DEF ListedCandidates, Range
<1>3. files.listing # <<>> => Head(files.listing) \in Cand
  BY <1>1
<1> QED
  BY <1>2, <1>3 DEF Resolve

LEMMA ApproveKeeps ==
  ASSUME thread \in Seq(OwnerCommand \cup {Report}), files \in LedgerFiles,
         NEW acc \in Seq(Approval), NEW i \in 1 .. Len(thread)
  PROVE  Approve(acc, i) \in Seq(Approval)
<1>1. CASE ~Acceptable(i)
  BY <1>1 DEF Approve
<1>2. CASE Acceptable(i)
  <2>1. thread[i] # Report /\ Resolve(i) # {}
    BY <1>2 DEF Acceptable, Commands
  <2>2. thread[i].external \in BOOLEAN
    BY <2>1 DEF OwnerCommand
  <2>3. (CHOOSE c \in Resolve(i) : TRUE) \in Cand
    BY <2>1, ResolvedIsCandidate
  <2>4. [comment |-> i, candidate |-> CHOOSE c \in Resolve(i) : TRUE,
         external |-> thread[i].external, consumed |-> FALSE] \in Approval
    BY <2>2, <2>3 DEF Approval
  <2> QED
    BY <1>2, <2>4 DEF Approve
<1> QED
  BY <1>1, <1>2

(* The steps of the loop over the comments. *)
LEMMA ApprovedFolds ==
  ASSUME thread \in Seq(OwnerCommand \cup {Report}), files \in LedgerFiles
  PROVE  /\ Approved \in Seq(Approval)
         /\ \E a \in [0 .. Len(Comments) -> Seq(Approval)] :
              /\ a[0] = files.approvals /\ a[Len(Comments)] = Approved
              /\ \A k \in 1 .. Len(Comments) :
                   /\ a[k - 1] \in Seq(Approval)
                   /\ a[k] = Approve(a[k - 1], Comments[k])
<1> DEFINE n == Len(Comments)
           step == [p \in Seq(Approval) \X (1 .. n) |-> Approve(p[1], Comments[p[2]])]
           Fold(g) == g = [T \in SUBSET (1 .. n) |-> IF T = {} THEN files.approvals
                             ELSE Approve(g[T \ {Max(T)}], Comments[Max(T)])]
           h == CHOOSE g : Fold(g)
<1>0. n \in Nat /\ DOMAIN Comments = 1 .. n /\ files.approvals \in Seq(Approval)
  BY DEF Comments, LedgerFiles
<1>1. step \in [Seq(Approval) \X (1 .. n) -> Seq(Approval)]
  <2>1. ASSUME NEW acc \in Seq(Approval), NEW i \in 1 .. n PROVE Approve(acc, Comments[i]) \in Seq(Approval)
    <3>1. Comments[i] = i /\ i \in 1 .. Len(thread)
      BY <1>0 DEF Comments
    <3> QED
      BY <3>1, ApproveKeeps
  <2> QED
    BY <2>1
<1> HIDE DEF n
<1>2. PICK g \in [SUBSET (1 .. n) -> Seq(Approval)] : Runs(step, files.approvals, n, g)
  <2> HIDE DEF step
  <2> QED
    BY <1>0, <1>1, FoldRuns
<1>3. ASSUME NEW T \in SUBSET (1 .. n), T # {} PROVE Max(T) \in 1 .. n /\ T \ {Max(T)} \in SUBSET (1 .. n)
  BY <1>0, <1>3, MaxOfIndices
<1>4. Fold(g)
  BY <1>2, <1>3 DEF Runs
<1>5. Fold(h)
  BY <1>4
<1>6. Approved = h[1 .. n]
  BY <1>0 DEF Approved, FoldLeft, MapThenFoldSet
<1>7. Obeys(step, files.approvals, n, Seq(Approval), h)
  <2>1. h[{}] = files.approvals
    BY <1>5
  <2>2. ASSUME NEW T \in SUBSET (1 .. n), T # {}, h[T \ {Max(T)}] \in Seq(Approval)
        PROVE  h[T] = step[<<h[T \ {Max(T)}], Max(T)>>]
    <3>1. h[T] = Approve(h[T \ {Max(T)}], Comments[Max(T)])
      BY <1>5, <2>2
    <3> HIDE DEF h
    <3> QED
      BY <1>3, <2>2, <3>1
  <2> QED
    BY <2>1, <2>2 DEF Obeys
<1> HIDE DEF h, step
<1>8. EndsIn(step, files.approvals, n, Seq(Approval), h[1 .. n])
  BY <1>0, <1>1, <1>7, FoldTrace
<1>9. PICK a \in [0 .. n -> Seq(Approval)] :
            /\ a[0] = files.approvals /\ a[n] = Approved
            /\ \A k \in 1 .. n : a[k - 1] \in Seq(Approval) /\ a[k] = step[<<a[k - 1], k>>]
  BY <1>6, <1>8 DEF EndsIn
<1>10. \A k \in 1 .. n :
         a[k - 1] \in Seq(Approval) /\ a[k] = Approve(a[k - 1], Comments[k])
  BY <1>9 DEF step
<1>11. Approved \in Seq(Approval)
  BY <1>0, <1>9
<1>12. \E b \in [0 .. n -> Seq(Approval)] :
         /\ b[0] = files.approvals /\ b[n] = Approved
         /\ \A k \in 1 .. n :
              b[k - 1] \in Seq(Approval) /\ b[k] = Approve(b[k - 1], Comments[k])
  BY <1>9, <1>10
<1> QED
  BY <1>11, <1>12 DEF n

LEMMA ApprovedTyped ==
  ASSUME thread \in Seq(OwnerCommand \cup {Report}), files \in LedgerFiles
  PROVE  Approved \in Seq(Approval)
<1>1. /\ Approved \in Seq(Approval)
      /\ \E a \in [0 .. Len(Comments) -> Seq(Approval)] :
           /\ a[0] = files.approvals /\ a[Len(Comments)] = Approved
           /\ \A k \in 1 .. Len(Comments) :
                /\ a[k - 1] \in Seq(Approval)
                /\ a[k] = Approve(a[k - 1], Comments[k])
  BY ApprovedFolds
<1> QED
  BY <1>1

LEMMA SpentTyped ==
  ASSUME files \in LedgerFiles, NEW K
  PROVE  Spent(K) \in Seq(Approval)
<1>1. files.approvals \in Seq(Approval)
  BY DEF LedgerFiles
<1>2. ASSUME NEW k \in 1 .. Len(files.approvals)
      PROVE  files.approvals[k] \in Approval /\ [files.approvals[k] EXCEPT !.consumed = TRUE] \in Approval
  <2>1. files.approvals[k] \in Approval
    BY <1>1
  <2>2. \A a \in Approval : [a EXCEPT !.consumed = TRUE] \in Approval
    BY DEF Approval
  <2> QED
    BY <2>1, <2>2
<1>3. Spent(K) \in [1 .. Len(files.approvals) -> Approval]
  BY <1>2 DEF Spent
<1>4. Len(files.approvals) \in Nat
  BY <1>1
<1> QED
  BY <1>3, <1>4

LEMMA LatestFinite ==
  ASSUME files \in LedgerFiles, NEW S \in SUBSET (1 .. Len(files.approvals))
  PROVE  IsFiniteSet(Latest(S))
<1>1. Len(files.approvals) \in Nat
  BY DEF LedgerFiles
<1>2. IsFiniteSet(1 .. Len(files.approvals))
  BY <1>1, FS_Interval
<1>3. Latest(S) \subseteq 1 .. Len(files.approvals)
  BY DEF Latest
<1> QED
  BY <1>2, <1>3, FS_Subset

LEMMA UseTyped ==
  ASSUME uses \in [1 .. (MaxComments + MaxRuns) -> Nat], NEW K, IsFiniteSet(K), Use(K)
  PROVE  uses' \in [1 .. (MaxComments + MaxRuns) -> Nat]
<1>1. ASSUME NEW i PROVE Cardinality({k \in K : files.approvals[k].comment = i}) \in Nat
  <2>1. {k \in K : files.approvals[k].comment = i} \subseteq K
    OBVIOUS
  <2> QED
    BY <2>1, FS_Subset, FS_CardinalityType
<1> DEFINE spent(i) == Cardinality({k \in K : files.approvals[k].comment = i})
<1>2. uses' = [i \in 1 .. (MaxComments + MaxRuns) |-> uses[i] + spent(i)]
  BY DEF Use
<1>3. \A i : spent(i) \in Nat
  BY <1>1
<1> HIDE DEF spent
<1> QED
  BY <1>2, <1>3

LEMMA ListingTyped ==
  ASSUME NEW listing \in SetToAllKPermutations(Cand)
  PROVE  listing \in Seq(Cand)
<1>1. PICK S \in SUBSET Cand : listing \in SetToSeqs(S)
  BY DEF SetToAllKPermutations
<1>2. IsFiniteSet(S)
  BY CandAssumption, FS_Subset
<1>3. Cardinality(S) \in Nat
  BY <1>2, FS_CardinalityType
<1>4. listing \in [1 .. Cardinality(S) -> S]
  BY <1>1 DEF SetToSeqs
<1> QED
  BY <1>3, <1>4

LEMMA ApprovalsKept ==
  ASSUME NEW f \in LedgerFiles, NEW as \in Seq(Approval)
  PROVE  [f EXCEPT !.approvals = as] \in LedgerFiles
  BY DEF LedgerFiles

LEMMA ListingKept ==
  ASSUME NEW f \in LedgerFiles, NEW l \in Seq(Cand)
  PROVE  [f EXCEPT !.listing = l] \in LedgerFiles
  BY DEF LedgerFiles

LEMMA StartedKept ==
  ASSUME NEW f \in LedgerFiles, NEW c \in Cand
  PROVE  [f EXCEPT !.started = @ \cup {c}] \in LedgerFiles
  BY DEF LedgerFiles

LEMMA ExecutionKept ==
  ASSUME NEW f \in LedgerFiles, NEW c \in Cand, NEW as \in Seq(Approval)
  PROVE  [f EXCEPT !.started = @ \cup {c}, !.approvals = as] \in LedgerFiles
  BY DEF LedgerFiles

LEMMA Fields ==
  ASSUME NEW f \in LedgerFiles
  PROVE  /\ DOMAIN f = {"approvals", "listing", "started", "status", "receipts", "submitted"}
         /\ f = [approvals |-> f.approvals, listing |-> f.listing, started |-> f.started,
                 status |-> f.status, receipts |-> f.receipts, submitted |-> f.submitted]
         /\ f.approvals \in Seq(Approval) /\ f.listing \in Seq(Cand)
         /\ f.started \in SUBSET Cand /\ f.status \in [Queued -> ActionStatuses]
         /\ f.receipts \in SUBSET Queued /\ f.submitted \in Nat
<1> HIDE DEF ActionStatuses
<1>1. DOMAIN f = {"approvals", "listing", "started", "status", "receipts", "submitted"}
  BY DEF LedgerFiles
<1>2. /\ f.approvals \in Seq(Approval) /\ f.listing \in Seq(Cand)
      /\ f.started \in SUBSET Cand
  BY DEF LedgerFiles
<1>3. /\ f.status \in [Queued -> ActionStatuses]
      /\ f.receipts \in SUBSET Queued /\ f.submitted \in Nat
  BY DEF LedgerFiles
<1>4. f = [approvals |-> f.approvals, listing |-> f.listing, started |-> f.started,
           status |-> f.status, receipts |-> f.receipts, submitted |-> f.submitted]
  BY DEF LedgerFiles
<1> QED
  BY <1>1, <1>2, <1>3, <1>4

LEMMA StatusKept ==
  ASSUME NEW f \in LedgerFiles, NEW a \in Queued, NEW s \in ActionStatuses
  PROVE  [f EXCEPT !.status[a] = s] \in LedgerFiles
<1> DEFINE st == [f.status EXCEPT ![a] = s]
<1>1. st \in [Queued -> ActionStatuses]
  BY Fields
<1>2. [f EXCEPT !.status[a] = s]
      = [approvals |-> f.approvals, listing |-> f.listing, started |-> f.started, status |-> st,
         receipts |-> f.receipts, submitted |-> f.submitted]
  BY Fields
<1> HIDE DEF st
<1> QED
  BY <1>1, <1>2, Fields DEF LedgerFiles

LEMMA PostedTyped ==
  ASSUME NEW f \in LedgerFiles, NEW as \in Seq(Approval), NEW a \in Queued
  PROVE  [f EXCEPT !.receipts = @ \cup {a}, !.approvals = as,
                   !.status[a] = "submitted", !.submitted = @ + 1] \in LedgerFiles
<1> DEFINE st == [f.status EXCEPT ![a] = "submitted"]
           R  == f.receipts \cup {a}
           n  == f.submitted + 1
<1>1. st \in [Queued -> ActionStatuses]
  BY Fields DEF ActionStatuses
<1>2. R \in SUBSET Queued /\ n \in Nat
  BY Fields
<1>3. [f EXCEPT !.status[a] = "submitted"]
      = [approvals |-> f.approvals, listing |-> f.listing, started |-> f.started, status |-> st,
         receipts |-> f.receipts, submitted |-> f.submitted]
  BY Fields
<1>4. [f EXCEPT !.receipts = @ \cup {a}, !.approvals = as,
                !.status[a] = "submitted", !.submitted = @ + 1]
      = [[f EXCEPT !.status[a] = "submitted"] EXCEPT !.receipts = R, !.approvals = as, !.submitted = n]
  BY Fields
<1> HIDE DEF st, R, n
<1> QED
  BY <1>1, <1>2, <1>3, <1>4, Fields DEF LedgerFiles

LEMMA FreshTyped == FreshResults \in LedgerFiles
<1>1. <<>> \in Seq(Approval) /\ <<>> \in Seq(Cand)
  OBVIOUS
<1> QED
  BY <1>1 DEF LedgerFiles, FreshResults, ActionStatuses

(* A run that has pushed its results holds what is on the branch.                       *)
ActionsInv == ActionsTypeOK /\ (pc = "report" => files = durable)

LEMMA ActionsInvariant == ActionsSpec => []ActionsInv
<1> USE BoundsAssumption
<1>1. ActionsInit => ActionsInv
  <2>1. SUFFICES ASSUME ActionsInit PROVE ActionsInv
    OBVIOUS
  <2>2. FreshResults \in LedgerFiles
    BY FreshTyped
  <2>3. <<>> \in Seq(OwnerCommand \cup {Report})
    OBVIOUS
  <2> QED
    BY <2>1, <2>2, <2>3 DEF ActionsInit, ActionsTypeOK, ActionsInv
<1>2. ActionsInv /\ [ActionsNext]_actionVars => ActionsInv'
  <2> SUFFICES ASSUME ActionsInv, [ActionsNext]_actionVars PROVE ActionsInv'
    OBVIOUS
  <2>0. CASE UNCHANGED actionVars
    BY <2>0 DEF actionVars, ActionsTypeOK, ActionsInv
  <2>1. CASE OwnerComments
    <3>1. PICK command \in OwnerCommand : thread' = Append(thread, command)
      BY <2>1 DEF OwnerComments
    <3>2. thread' \in Seq(OwnerCommand \cup {Report})
      BY <3>1 DEF ActionsTypeOK, ActionsInv
    <3> QED
      BY <2>1, <3>2 DEF OwnerComments, ActionsTypeOK, ActionsInv
  <2>15. CASE OthersOpen
    <3>1. issues' \in Seq(Cand \cup {Other})
      BY <2>15 DEF OthersOpen, ActionsTypeOK, ActionsInv
    <3> QED
      BY <2>15, <3>1 DEF OthersOpen, ActionsTypeOK, ActionsInv
  <2>2. CASE ScoutCandidates
    <3>1. PICK listing \in SetToAllKPermutations(Cand) : files' = [durable EXCEPT !.listing = listing]
      BY <2>2 DEF ScoutCandidates
    <3>2. files' \in LedgerFiles
      BY <3>1, ListingTyped, ListingKept DEF ActionsTypeOK, ActionsInv
    <3> QED
      BY <2>2, <3>2 DEF ScoutCandidates, ActionsTypeOK, ActionsInv
  <2>3. CASE ConsumeApprovals
    <3>1. files' \in LedgerFiles
      BY <2>3, ApprovedTyped, ApprovalsKept DEF ConsumeApprovals, ActionsTypeOK, ActionsInv
    <3> QED
      BY <2>3, <3>1 DEF ConsumeApprovals, ActionsTypeOK, ActionsInv
  <2>4. CASE NothingToStart
    BY <2>4 DEF NothingToStart, ActionsTypeOK, ActionsInv
  <2>5. ASSUME NEW c \in ListedCandidates PROVE c \in Cand
    <3>1. files.listing \in Seq(Cand)
      BY DEF ActionsTypeOK, ActionsInv, LedgerFiles
    <3> QED
      BY <2>5, <3>1 DEF ListedCandidates, Range
  <2>6. CASE AlreadyExecuting
    <3>0. PICK c \in ListedCandidates : files' = [files EXCEPT !.started = @ \cup {c}]
      BY <2>6 DEF AlreadyExecuting
    <3>1. files' \in LedgerFiles
      BY <2>5, <3>0, StartedKept DEF ActionsTypeOK, ActionsInv
    <3> QED
      BY <2>6, <3>1 DEF AlreadyExecuting, ActionsTypeOK, ActionsInv
  <2>7. CASE StartExecution
    <3>1. PICK c \in ListedCandidates :
            /\ issues' = Append(issues, c)
            /\ files' = [files EXCEPT !.started = @ \cup {c}, !.approvals = Spent(FindApproval(c))]
      BY <2>7 DEF StartExecution
    <3>2. files' \in LedgerFiles
      BY <2>5, <3>1, SpentTyped, ExecutionKept DEF ActionsTypeOK, ActionsInv
    <3>3. issues' \in Seq(Cand \cup {Other})
      <4>1. c \in Cand
        BY <2>5
      <4> QED
        BY <3>1, <4>1 DEF ActionsTypeOK, ActionsInv
    <3> QED
      BY <2>7, <3>2, <3>3 DEF StartExecution, ActionsTypeOK, ActionsInv
  <2>8. CASE NothingToPost
    BY <2>8 DEF NothingToPost, ActionsTypeOK, ActionsInv
  <2>9. ASSUME NEW a \in Queued, RejectByPolicy(a) PROVE ActionsInv'
    <3>1. files' \in LedgerFiles
      BY <2>9, StatusKept DEF RejectByPolicy, ActionStatuses, ActionsTypeOK, ActionsInv
    <3> QED
      BY <2>9, <3>1 DEF RejectByPolicy, ActionsTypeOK, ActionsInv
  <2>10. ASSUME NEW a \in Queued, Fallback(a) PROVE ActionsInv'
    <3>1. files' \in LedgerFiles
      BY <2>10, StatusKept DEF Fallback, ActionStatuses, ActionsTypeOK, ActionsInv
    <3> QED
      BY <2>10, <3>1 DEF Fallback, ActionsTypeOK, ActionsInv
  <2>11. ASSUME NEW a \in Queued, PostAction(a) PROVE ActionsInv'
    <3> DEFINE K == IF a \in Autonomous THEN {} ELSE FindExternalApproval(CandOf[a])
    <3>1. /\ files' = [files EXCEPT !.receipts = @ \cup {a}, !.approvals = Spent(K),
                             !.status[a] = "submitted", !.submitted = @ + 1]
          /\ posted' = [posted EXCEPT ![a] = @ + 1] /\ Use(K)
      BY <2>11 DEF PostAction
    <3>2. IsFiniteSet(FindExternalApproval(CandOf[a]))
      BY LatestFinite DEF FindExternalApproval, ActionsTypeOK, ActionsInv
    <3>3. IsFiniteSet(K)
      BY <3>2, FS_EmptySet
    <3> HIDE DEF K
    <3>4. files' \in LedgerFiles
      BY <3>1, SpentTyped, PostedTyped DEF ActionsTypeOK, ActionsInv
    <3>5. posted' \in [Queued -> Nat]
      BY <3>1 DEF ActionsTypeOK, ActionsInv
    <3>6. uses' \in [1 .. (MaxComments + MaxRuns) -> Nat]
      BY <3>1, <3>3, UseTyped DEF ActionsTypeOK, ActionsInv
    <3> QED
      BY <2>11, <3>4, <3>5, <3>6 DEF PostAction, ActionsTypeOK, ActionsInv
  <2>12. CASE CommitLedger
    BY <2>12 DEF CommitLedger, ActionsTypeOK, ActionsInv
  <2>13. CASE PublishReport
    <3>1. thread' \in Seq(OwnerCommand \cup {Report})
      BY <2>13 DEF PublishReport, ActionsTypeOK, ActionsInv
    <3>2. files' = durable'
      BY <2>13 DEF PublishReport, ActionsTypeOK, ActionsInv
    <3> QED
      BY <2>13, <3>1 DEF PublishReport, ActionsTypeOK, ActionsInv
  <2>14. CASE ScoutJobFails
    BY <2>14 DEF ScoutJobFails, ActionsTypeOK, ActionsInv
  <2> QED
    BY <2>0, <2>1, <2>2, <2>3, <2>4, <2>6, <2>7, <2>8, <2>9, <2>10, <2>11, <2>12, <2>13, <2>14, <2>15
    DEF ActionsNext
<1> QED
  BY <1>1, <1>2, PTL DEF ActionsSpec

(* The comments, the files of the branch and of the run, and what was posted keep their   *)
(* shape, and between runs nothing is left in the checkout: for every finite set of        *)
(* candidates, every queue of prepared actions and any runs that fail.                    *)
THEOREM ActionsTypeCorrect == ActionsSpec => []ActionsTypeOK
<1>1. ActionsInv => ActionsTypeOK
  BY DEF ActionsInv
<1> QED
  BY <1>1, ActionsInvariant, PTL

(* GitHub's issues are all that the invariant needs: the marker is looked up there, and  *)
(* what the run has started or lost does not matter.                                 *)
LEMMA IssuesNext ==
  ASSUME ActionsTypeOK, OneIssuePerCandidate, [ActionsNext]_actionVars
  PROVE  OneIssuePerCandidate'
<1> DEFINE n == Len(issues)
<1>n. n \in Nat
  BY DEF ActionsTypeOK
<1>a. ASSUME NEW x \in Cand \cup {Other}, issues' = Append(issues, x),
             x = Other \/ x \notin Scanned
      PROVE  OneIssuePerCandidate'
  <2>1. /\ issues' \in Seq(Cand \cup {Other}) /\ Len(issues') = n + 1
        /\ issues'[n + 1] = x /\ \A j \in 1..n : issues'[j] = issues[j]
    BY <1>a DEF ActionsTypeOK
  <2>2. ASSUME NEW j \in 1..n, issues[j] = x, x # Other PROVE (n + 1) - j > LookBack
    <3>1. ~(j > n - LookBack)
      BY <1>a, <2>2 DEF Scanned
    <3> QED
      BY <1>n, <3>1, LookBackAssumption
  <2>3. ASSUME NEW j \in 1..Len(issues'), NEW k \in 1..Len(issues'),
               issues'[j] # Other, issues'[j] = issues'[k], j < k
        PROVE  k - j > LookBack
    <3>1. j \in 1..n
      BY <1>n, <2>1, <2>3
    <3>2. CASE k \in 1..n
      BY <2>1, <2>3, <3>1, <3>2 DEF OneIssuePerCandidate
    <3>3. CASE k = n + 1
      BY <2>1, <2>2, <2>3, <3>1, <3>3
    <3> HIDE DEF n
    <3> QED
      BY <1>n, <2>1, <3>2, <3>3
  <2> QED
    BY <2>1, <2>3 DEF OneIssuePerCandidate
<1>1. CASE StartExecution
  <2>1. PICK c \in ListedCandidates : c \notin Scanned /\ issues' = Append(issues, c)
    BY <1>1 DEF StartExecution
  <2>2. files.listing \in Seq(Cand)
    BY DEF ActionsTypeOK, LedgerFiles
  <2>3. c \in Cand
    BY <2>1, <2>2 DEF ListedCandidates, Range
  <2> QED
    BY <1>a, <2>1, <2>3
<1>3. CASE OthersOpen
  BY <1>a, <1>3 DEF OthersOpen
<1>2. CASE ~(StartExecution \/ OthersOpen)
  <2>1. issues' = issues
    <3>1. CASE OwnerComments \/ ScoutCandidates \/ ConsumeApprovals
      BY <3>1 DEF OwnerComments, ScoutCandidates, ConsumeApprovals
    <3>2. CASE NothingToStart \/ AlreadyExecuting \/ NothingToPost
      BY <3>2 DEF NothingToStart, AlreadyExecuting, NothingToPost
    <3>3. CASE \E a \in Queued : RejectByPolicy(a) \/ Fallback(a) \/ PostAction(a)
      BY <3>3 DEF RejectByPolicy, Fallback, PostAction
    <3>4. CASE CommitLedger \/ PublishReport \/ ScoutJobFails \/ UNCHANGED actionVars
      BY <3>4 DEF CommitLedger, PublishReport, ScoutJobFails, actionVars
    <3> QED
      BY <1>2, <3>1, <3>2, <3>3, <3>4 DEF ActionsNext
  <2> QED
    BY <2>1 DEF OneIssuePerCandidate
<1> QED
  BY <1>1, <1>2, <1>3

(* No two issues of a candidate are within the reach of one scan, for any candidates,     *)
(* actions and reach, however many runs fail and lose their receipts.                   *)
THEOREM OneIssuePerCandidateHolds == ActionsSpec => []OneIssuePerCandidate
<1>1. ActionsInit => OneIssuePerCandidate
  BY DEF ActionsInit, OneIssuePerCandidate
<1>2. ActionsTypeOK /\ OneIssuePerCandidate /\ [ActionsNext]_actionVars => OneIssuePerCandidate'
  BY IssuesNext
<1> QED
  BY <1>1, <1>2, ActionsTypeCorrect, PTL DEF ActionsSpec

--------------------------------------------------------------------------------
(* All lanes together: a step moves the lane in focus and leaves the others alone.        *)

LEMMA LanesApart ==
  /\ Init => /\ BridgeInit /\ MoltInit /\ KernelInit /\ OutcomeInit /\ MarketInit
             /\ MissionInit /\ ActionsInit /\ SubmissionInit
  /\ [Next]_vars => /\ [BridgeNext]_bridge /\ [MoltNext]_molt /\ [KernelNext]_kernel
                    /\ [OutcomeNext]_outcome /\ [MarketNext]_pipeline /\ [MissionNext]_missions
                    /\ [ActionsNext]_actionVars /\ [SubmissionNext]_submission
<1>1. ASSUME Init
      PROVE  /\ BridgeInit /\ MoltInit /\ KernelInit /\ OutcomeInit /\ MarketInit
             /\ MissionInit /\ ActionsInit /\ SubmissionInit
  BY <1>1 DEF Init
<1>2. ASSUME [Next]_vars
      PROVE  /\ [BridgeNext]_bridge /\ [MoltNext]_molt /\ [KernelNext]_kernel
             /\ [OutcomeNext]_outcome /\ [MarketNext]_pipeline /\ [MissionNext]_missions
             /\ [ActionsNext]_actionVars /\ [SubmissionNext]_submission
  BY <1>2 DEF Next, vars
<1> QED
  BY <1>1, <1>2

(* Whatever lane is looked at, its variables are well typed: the files, documents, runs     *)
(* and messages of the bridge, the sniper, the kernel, the reconciliation, the market, the *)
(* missions, the external actions and the tested submission, for every value of their      *)
(* constants.                                                                             *)
THEOREM LanesTypeCorrect == Spec => []TypeOK
<1>1. Spec => /\ BridgeSpec /\ MoltSpec /\ KernelSpec /\ OutcomeSpec /\ MarketSpec
              /\ MissionSpec /\ ActionsSpec /\ SubmissionSpec
  BY LanesApart, PTL DEF Spec, BridgeSpec, MoltSpec, KernelSpec, OutcomeSpec, MarketSpec,
     MissionSpec, ActionsSpec, SubmissionSpec
<1>2. /\ BridgeTypeOK /\ MoltTypeOK /\ KernelTypeOK /\ OutcomeTypeOK /\ MarketTypeOK
      /\ MissionTypeOK /\ ActionsTypeOK /\ SubmissionTypeOK
      => TypeOK
  BY DEF TypeOK
<1> QED
  BY <1>1, <1>2, BridgeTypeCorrect, MoltTypeCorrect, KernelTypeCorrect, OutcomeTypeCorrect,
     MarketTypeCorrect, MissionTypeCorrect, ActionsTypeCorrect, TestedTypeCorrect, PTL
================================================================================

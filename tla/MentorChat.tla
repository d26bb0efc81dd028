------------------------------- MODULE MentorChat -------------------------------
(***************************************************************************)
(* atlas/louis_mcp.py and the sessions of atlas/louis_chat_v6.py (extended by v7    *)
(* and v8): one chat session, its messages in Firestore, and the mentor that is      *)
(* paired with it over MCP.  The server runs each request on a thread of its own.     *)
(* Texts, tokens, the permanent memory, web pages and the protocol around the four      *)
(* tools and the page are left out; documents are in the order of their creation.       *)
(***************************************************************************)
EXTENDS Integers, Sequences, FiniteSets, SequencesExt

CONSTANTS
  Talk,         \* requests to Louis: POST /v1/chat, or the tool send_message_to_louis
  Note,         \* messages queued for the mentor
  Mentor,       \* calls of reply_to_mentor_message
  Wording,      \* replies
  Silence,      \* no reply yet
  HistoryLimit, \* messages of the session that a prompt holds
  NotesLimit    \* notes that the mentor reads

ASSUME MentorAssumption ==
  /\ Silence \notin Wording
  /\ HistoryLimit \in Nat \ {0} /\ NotesLimit \in Nat \ {0}

Line == [role : {"user", "assistant"}, of : Talk]

VARIABLES
  session,  \* Seq(Line): the messages of the session
  talk,     \* [Talk -> [at, prompt, late]]
  notes,    \* Seq([id : Note, reply]): the messages for the mentor
  paired,   \* the pairing is active and not expired
  mentor,   \* [Mentor -> [at, note, reply]]
  raced     \* history: notes two replies to which were under way at once

mentoring == <<session, talk, notes, paired, mentor, raced>>

MentorInit ==
  /\ session = <<>>
  /\ talk = [t \in Talk |-> [at |-> "off", prompt |-> {}, late |-> 0]]
  /\ notes = <<>> /\ paired = TRUE
  /\ mentor = [m \in Mentor |-> [at |-> "off", note |-> Silence, reply |-> Silence]]
  /\ raced = {}

(* A mutant: the first messages of the session.                                    *)
Oldest(list, limit) == SubSeq(list, 1, IF Len(list) > limit THEN limit ELSE Len(list))

Newest(list, limit) == SubSeq(list, IF Len(list) > limit THEN Len(list) - limit + 1 ELSE 1, Len(list))

-------------------------------------------------------------------------------
(* A request to Louis.                                                       *)

Say(line) == session' = Append(session, line)

(* _reply: the question is saved; v8 answers some by itself.                      *)
Question(t) ==
  /\ talk[t].at = "off"
  /\ Say([role |-> "user", of |-> t])
  /\ \E next \in {"history", "answer"} :
       talk' = [u \in Talk |->
                  IF u = t THEN [talk[t] EXCEPT !.at = next]
                  ELSE IF talk[u].at = "history" THEN [talk[u] EXCEPT !.late = @ + 1]
                  ELSE talk[u]]
  /\ UNCHANGED <<notes, paired, mentor, raced>>

(* A web search may fail: the failure is the answer.                              *)
SearchFails(t) ==
  /\ talk[t].at = "history"
  /\ talk' = [talk EXCEPT ![t].at = "answer"]
  /\ UNCHANGED <<session, notes, paired, mentor, raced>>

(* The prompt holds the newest messages, whoever wrote them.                      *)
ReadHistory(t) ==
  /\ talk[t].at = "history"
  /\ talk' = [talk EXCEPT ![t].at = "answer",
                          ![t].prompt = Range(Newest(session, HistoryLimit))]
  /\ UNCHANGED <<session, notes, paired, mentor, raced>>

(* The answer is saved; v8 saves it again when it corrects it.                    *)
AnswerTalk(t) ==
  /\ talk[t].at \in {"answer", "corrected"}
  /\ Say([role |-> "assistant", of |-> t])
  /\ \E next \in {"done", "corrected"} :
       /\ next = "corrected" => talk[t].at = "answer"
       /\ talk' = [u \in Talk |->
                     IF u = t THEN [talk[t] EXCEPT !.at = next]
                     ELSE IF talk[u].at = "history" THEN [talk[u] EXCEPT !.late = @ + 1]
                     ELSE talk[u]]
  /\ UNCHANGED <<notes, paired, mentor, raced>>

-------------------------------------------------------------------------------
(* The mentor.                                                               *)

QueueNote(n) ==
  /\ paired /\ \A i \in DOMAIN notes : notes[i].id # n
  /\ notes' = Append(notes, [id |-> n, reply |-> Silence])
  /\ UNCHANGED <<session, talk, paired, mentor, raced>>

(* The pairing is revoked, or its days are over.                                  *)
PairingEnds ==
  /\ paired
  /\ paired' = FALSE
  /\ UNCHANGED <<session, talk, notes, mentor, raced>>

(* list_pending_mentor_messages: the pending ones among the newest.               *)
Pending == {n \in Range(Newest(notes, NotesLimit)) : n.reply = Silence}

(* The mentor replies to a message it was listed as pending, now or before.       *)
ListPending(m) ==
  /\ paired /\ mentor[m].at = "off"
  /\ \E n \in Pending, w \in Wording :
       mentor' = [mentor EXCEPT ![m] = [at |-> "call", note |-> n.id, reply |-> w]]
  /\ UNCHANGED <<session, talk, notes, paired, raced>>

NoteOf(n) == CHOOSE i \in DOMAIN notes : notes[i].id = n
Stale(m)  == {o \in Mentor \ {m} : mentor[o].at = "write" /\ mentor[o].note = mentor[m].note}

(* A mutant: a reply that differs replaces the first one.                           *)
ReadAnyNote(m) ==
  /\ mentor[m].at = "call" /\ paired
  /\ mentor' = [mentor EXCEPT ![m].at = "write"]
  /\ raced' = raced \cup {mentor[o].note : o \in Stale(m)}
  /\ UNCHANGED <<session, talk, notes, paired>>

(* reply_message reads the document ...                                          *)
ReadNote(m) ==
  LET old == notes[NoteOf(mentor[m].note)].reply IN
  /\ mentor[m].at = "call"
  /\ \/ /\ ~paired /\ mentor' = [mentor EXCEPT ![m].at = "refused"]
        /\ UNCHANGED raced
     \/ /\ paired /\ old # Silence
        /\ mentor' = [mentor EXCEPT ![m].at = IF old = mentor[m].reply THEN "kept" ELSE "refused"]
        /\ UNCHANGED raced
     \/ /\ paired /\ old = Silence
        /\ mentor' = [mentor EXCEPT ![m].at = "write"]
        /\ raced' = raced \cup {mentor[o].note : o \in Stale(m)}
  /\ UNCHANGED <<session, talk, notes, paired>>

(* ... and then sets it.                                                         *)
SetReply(m) ==
  /\ mentor[m].at = "write"
  /\ notes' = [notes EXCEPT ![NoteOf(mentor[m].note)].reply = mentor[m].reply]
  /\ mentor' = [mentor EXCEPT ![m].at = "kept"]
  /\ UNCHANGED <<session, talk, paired, raced>>

TalkNext == \E t \in Talk : Question(t) \/ SearchFails(t) \/ ReadHistory(t) \/ AnswerTalk(t)

MentorNext ==
  \/ \E n \in Note : QueueNote(n)
  \/ \E m \in Mentor : ListPending(m) \/ ReadNote(m) \/ SetReply(m)
  \/ PairingEnds

MentorSpec == MentorInit /\ [][MentorNext \/ TalkNext]_mentoring

-------------------------------------------------------------------------------
MentorTypeOK ==
  /\ session \in Seq(Line)
  /\ talk \in [Talk -> [at : {"off", "history", "answer", "corrected", "done"},
                        prompt : SUBSET Line, late : Nat]]
  /\ notes \in Seq([id : Note, reply : Wording \cup {Silence}])
  /\ paired \in BOOLEAN /\ raced \subseteq Note
  /\ mentor \in [Mentor -> [at : {"off", "call", "write", "kept", "refused"},
                            note : Note \cup {Silence}, reply : Wording \cup {Silence}]]

(* "Conflicting second replies are refused; replaying the exact reply is           *)
(* idempotent" (docs/LOUIS_CODEX_MCP_BRIDGE.md): a reply that was accepted is the   *)
(* one the message keeps, unless another was on its way at the same moment.         *)
AcceptedReplyIsKept ==
  \A m \in Mentor :
    mentor[m].at = "kept" /\ mentor[m].note \notin raced
      => notes[NoteOf(mentor[m].note)].reply = mentor[m].reply

(* A prompt holds the question it is to answer, unless as many messages came after *)
(* it as a prompt holds.                                                          *)
PromptHoldsItsQuestion ==
  \A t \in Talk :
    talk[t].prompt # {} /\ talk[t].late < HistoryLimit
      => [role |-> "user", of |-> t] \in talk[t].prompt
===============================================================================

----------------------------- MODULE AnswerStream -----------------------------
(***************************************************************************)
(* One worker of the daemon from the first line of the model's answer to    *)
(* the packet that ends the exchange (_run_request, _invoke_llm): the       *)
(* provider client that reads server-sent events (llm/openai.py), the       *)
(* DeltaBatcher that gathers text, and _emit_delta that cuts it to packets. *)
(* CompanionDaemon has all of it as EmitDelta, ModelFails and Commit.       *)
(*                                                                          *)
(* The characters of the answer are numbered as the provider sends them, so *)
(* a piece of text is an interval.  Comments, unknown fields and blank      *)
(* lines between events change nothing and are left out.  D_what is D with  *)
(* a plausible bug, for the mutation runs.                                  *)
(***************************************************************************)
EXTENDS Integers, Sequences, FiniteSetsExt

CONSTANTS
    Chunks,         \* how many characters one provider event may bring
    Widths,         \* bytes of one character in a packet (escapes, UTF-8)
    MaxChars,       \* config.delta_chars
    DeltaBudget,    \* bytes of text an assistant_delta packet has room for
    EndBudget,      \* bytes of text an assistant_end packet has room for
    SendMayFail,    \* sendto may raise
    StoreMayFail,   \* SQLite may raise
    LoneMayCome,    \* the provider may send half of a surrogate pair
    MaxText,        \* bound: characters of the answer
    MaxLines        \* bound: data lines of the response

ASSUME StreamAssumption ==
    /\ Chunks \subseteq Nat /\ Widths \subseteq Nat \ {0}
    /\ MaxChars \in Nat \ {0} /\ DeltaBudget \in Nat /\ EndBudget \in Nat
    /\ SendMayFail \in BOOLEAN /\ StoreMayFail \in BOOLEAN /\ LoneMayCome \in BOOLEAN
    /\ MaxText \in Nat /\ MaxLines \in Nat

(* What a data line holds: an event with so many characters of text (0: a   *)
(* role, usage, an empty delta), half of such an event, the end marker, an  *)
(* error event, or what is no JSON object.                                  *)
Text(k) == [kind |-> "text", chars |-> k]
Other(k) == [kind |-> k, chars |-> 0]
Data == {Text(k) : k \in Chunks} \cup {Other(k) : k \in {"half", "done", "error", "invalid"}}

VARIABLES
    width,      \* the answer: the bytes of each of its characters
    lines,      \* data lines so far
    closed,     \* the response has ended
    event,      \* event_data of iter_sse_data
    done,       \* saw_done
    parts,      \* characters in parts
    ink,        \* some of them is not white space
    todo,       \* of these, the ones the batcher was not given yet
    batch,      \* char_count of the batcher
    seq,        \* request.next_seq
    sent,       \* assistant_delta packets sent
    current,    \* _request_current_locked
    at,         \* where the worker is
    code        \* why it failed

provider == <<width, lines, closed>>
client == <<event, done, parts, ink>>
vars == <<provider, client, todo, batch, seq, sent, current, at, code>>

Place == {"reading", "returned", "checking", "failing", "ended", "failed", "dropped"}
Code == {"", "MODEL_ERROR", "MODEL_PROTOCOL", "MODEL_STREAM", "MODEL_EMPTY",
         "REQUEST_STALE", "MODEL_TOO_LARGE", "DAEMON_ERROR"}

StreamInit ==
    /\ width \in [1..MaxText -> Widths] /\ lines = 0 /\ closed = FALSE
    /\ event = <<>> /\ done = FALSE /\ parts = 0 /\ ink = FALSE
    /\ todo = 0 /\ batch = 0 /\ seq = 2 /\ sent = <<>>
    /\ current = TRUE /\ at = "reading" /\ code = ""

-----------------------------------------------------------------------------
(* _emit_delta of the characters first..last.  The packet is filled by      *)
(* bisection over its length; what does not fit is tried again.             *)
Bytes(first, last) == SumFunctionOnSet(width, first..last)
Fits(first, n) == Bytes(first, first + n - 1) <= DeltaBudget

Window == [low : 1..MaxText + 1, high : 0..MaxText, best : 0..MaxText]
Narrowed(first, w) == LET middle == (w.low + w.high) \div 2
                      IN  IF Fits(first, middle) THEN [w EXCEPT !.low = middle + 1, !.best = middle]
                          ELSE [w EXCEPT !.high = middle - 1]

Longest_lastUntried(first, last) ==
    LET search[w \in Window] == IF w.low >= w.high THEN w.best ELSE search[Narrowed(first, w)]
    IN  search[[low |-> 1, high |-> last - first + 1, best |-> 0]]

Longest(first, last) ==
    LET search[w \in Window] == IF w.low > w.high THEN w.best ELSE search[Narrowed(first, w)]
    IN  search[[low |-> 1, high |-> last - first + 1, best |-> 0]]

Packets_whole(first, last) == <<[first |-> first, last |-> last]>>

(* A character that fits no packet ends the delta.                          *)
Packets(first, last) ==
    LET from[f \in 1..MaxText + 1] ==
          LET n == IF f > last THEN 0 ELSE Longest(f, last)
          IN  IF n = 0 THEN <<>>
              ELSE <<[first |-> f, last |-> f + n - 1]>> \o from[f + n]
    IN  from[first]

Numbered(ps, k) == [i \in 1..k |-> [first |-> ps[i].first, last |-> ps[i].last, seq |-> seq + i - 1]]

Emit_always(first, last, next, c) ==
    LET ps == Packets(first, last)
    IN  /\ sent' = sent \o Numbered(ps, Len(ps)) /\ seq' = seq + Len(ps)
        /\ at' = next /\ UNCHANGED code

(* A number is taken for every packet tried; the first that cannot be sent  *)
(* ends the delta, and the worker goes on to next.                          *)
EmitFrom(ps, next) ==
    \E k \in IF SendMayFail THEN 0..Len(ps) ELSE {Len(ps)} :
      /\ sent' = sent \o Numbered(ps, k)
      /\ seq' = seq + (IF k < Len(ps) THEN k + 1 ELSE k)
      /\ at' = next /\ UNCHANGED code

(* A lone surrogate cannot be encoded: the bisection that tries it in the   *)
(* text after packet k raises, and the worker fails with c (MODEL_ERROR     *)
(* inside stream, which wraps it).                                          *)
EmitRaises(ps, last, c) == LoneMayCome /\
    \E k \in 0..Len(ps) :
      /\ k > 0 => ps[k].last < last
      /\ sent' = sent \o Numbered(ps, k) /\ seq' = seq + k
      /\ at' = "failing" /\ code' = c

Emit(first, last, next, c) ==
    IF ~current THEN at' = next /\ UNCHANGED <<seq, sent, code>>
    ELSE LET ps == Packets(first, last) IN EmitFrom(ps, next) \/ EmitRaises(ps, last, c)

(* DeltaBatcher._emit of the last n characters up to the one numbered last. *)
Flushed(n, last, next, c) ==
    IF n = 0 THEN at' = next /\ UNCHANGED <<seq, sent, code>> ELSE Emit(last - n + 1, last, next, c)

-----------------------------------------------------------------------------
(* iter_sse_data: the event that ends here.  Lines of one event are joined  *)
(* by newlines, so two halves of a JSON object are one, and no other two    *)
(* lines are JSON.                                                          *)
Assembled == CASE Len(event) = 1 /\ event[1].kind # "half" -> event[1]
               [] event = <<Other("half"), Other("half")>> -> Text(1)
               [] OTHER -> Other("invalid")

Fail(c) == at' = "failing" /\ code' = c /\ UNCHANGED <<done, parts, ink, todo, batch, seq, sent>>

(* stream: what the event does, with the batcher's look at the clock (due:  *)
(* delta_interval has passed) when there is text.                           *)
Handle(e) ==
    \/ e.kind = "done" /\ done' = TRUE /\ at' = "returned"
       /\ UNCHANGED <<parts, ink, todo, batch, seq, sent, code>>
    \/ e.kind = "error" /\ Fail("MODEL_ERROR")
    \/ e.kind \in {"half", "invalid"} /\ Fail("MODEL_PROTOCOL")
    \/ e = Text(0) /\ UNCHANGED <<done, parts, ink, todo, batch, seq, sent, at, code>>
    \/ /\ e.kind = "text" /\ e.chars \in 1..MaxText - parts
       /\ \E due \in BOOLEAN, black \in BOOLEAN :
            /\ ink' = (ink \/ black)
            /\ IF due THEN batch' = 0 /\ Flushed(batch, parts, at, "MODEL_ERROR")
               ELSE UNCHANGED <<batch, seq, sent, at, code>>
       /\ parts' = parts + e.chars /\ todo' = e.chars
       /\ UNCHANGED done

Reading == at = "reading" /\ todo = 0

Line(d) == /\ Reading /\ ~closed
           /\ lines < MaxLines /\ parts + (IF d.kind = "half" THEN 1 ELSE d.chars) <= MaxText
           /\ lines' = lines + 1 /\ event' = Append(event, d)
           /\ UNCHANGED <<width, closed, done, parts, ink, todo, batch, seq, sent, current, at, code>>

(* A blank line, or the end of the response, ends the event.                *)
EventEnds == /\ Reading /\ event # <<>>
             /\ event' = <<>> /\ Handle(Assembled)
             /\ closed' \in {closed, TRUE}
             /\ UNCHANGED <<width, lines, current>>

ResponseEnds_waits ==
    /\ Reading /\ event = <<>> /\ ~closed
    /\ closed' = TRUE
    /\ UNCHANGED <<width, lines, client, todo, batch, seq, sent, current, at, code>>

ResponseEnds_asDone ==
    /\ Reading /\ event = <<>>
    /\ closed' = TRUE /\ at' = "returned"
    /\ UNCHANGED <<width, lines, client, todo, batch, seq, sent, current, code>>

ResponseEnds == /\ Reading /\ event = <<>>
                /\ closed' = TRUE /\ Fail("MODEL_STREAM")
                /\ UNCHANGED <<width, lines, event, current>>

(* HTTP status, refused connection, a read that times out; one code here.   *)
RequestFails == /\ Reading /\ ~closed
                /\ closed' = TRUE /\ Fail("MODEL_ERROR")
                /\ UNCHANGED <<width, lines, event, current>>

(* One turn of the batcher's loop.                                          *)
Gather_unbounded ==
    /\ at = "reading" /\ todo > 0
    /\ todo' = 0 /\ batch' = batch + todo
    /\ UNCHANGED <<provider, client, seq, sent, current, at, code>>

Gather ==
    /\ at = "reading" /\ todo > 0
    /\ LET piece == Min({todo, MaxChars - batch})
       IN  /\ todo' = todo - piece
           /\ IF batch + piece < MaxChars
              THEN batch' = batch + piece /\ UNCHANGED <<seq, sent, at, code>>
              ELSE batch' = 0 /\ Flushed(MaxChars, parts - todo + piece, at, "MODEL_ERROR")
    /\ UNCHANGED <<provider, client, current>>

(* stream returns its text, _invoke_llm looks whether it was cancelled (a   *)
(* daemon that stops sets its flag first and cancels after),                *)
(* and the worker sends what the batcher holds.                             *)
Return == /\ at = "returned"
          /\ \/ parts = 0 /\ Fail("MODEL_EMPTY")
             \/ parts > 0 /\ ~current /\ Fail("REQUEST_STALE")
             \/ /\ parts > 0
                /\ batch' = 0 /\ Flushed(batch, parts, "checking", "DAEMON_ERROR")
                /\ UNCHANGED <<done, parts, ink, todo>>
          /\ UNCHANGED <<provider, event, current>>

(* The critical section that completes the turn, up to the durable commit.  *)
Finish == /\ at = "checking"
          /\ \/ ~ink /\ Fail("MODEL_EMPTY")
             \/ ink /\ current /\ Bytes(1, parts) > EndBudget /\ Fail("MODEL_TOO_LARGE")
             \/ ink /\ current /\ (StoreMayFail \/ LoneMayCome) /\ Fail("DAEMON_ERROR")
             \/ /\ ink /\ \/ ~current /\ at' = "dropped" /\ UNCHANGED seq
                          \/ current /\ Bytes(1, parts) <= EndBudget /\ at' = "ended" /\ seq' = seq + 1
                /\ UNCHANGED <<done, parts, ink, todo, batch, sent, code>>
          /\ UNCHANGED <<provider, event, current>>

(* _finish_error.                                                           *)
Report == /\ at = "failing"
          /\ IF current THEN at' = "failed" /\ seq' = seq + 1 ELSE at' = "dropped" /\ UNCHANGED seq
          /\ UNCHANGED <<provider, client, todo, batch, sent, current, code>>

(* The game reconnects, moves, or the daemon stops.                         *)
Supersede == /\ current /\ at \notin {"ended", "failed", "dropped"}
             /\ current' = FALSE
             /\ UNCHANGED <<provider, client, todo, batch, seq, sent, at, code>>

Work == Gather \/ Return \/ Finish \/ Report
StreamNext == \/ \E d \in Data : Line(d)
              \/ EventEnds \/ ResponseEnds \/ RequestFails
              \/ Work \/ Supersede

(* The worker is scheduled; that the provider's response ends, or falls     *)
(* silent and times out, is its own promise: llm_timeout bounds one read,   *)
(* not the call.                                                            *)
StreamSpec == /\ StreamInit /\ [][StreamNext]_vars
              /\ WF_vars(Work) /\ WF_vars(EventEnds) /\ WF_vars(ResponseEnds)

-----------------------------------------------------------------------------
(* Every variable has its type.                                             *)
StreamTypeOK ==
    /\ width \in [1..MaxText -> Widths] /\ lines \in 0..MaxLines /\ closed \in BOOLEAN
    /\ event \in Seq(Data \cup {Other("half")}) /\ done \in BOOLEAN /\ ink \in BOOLEAN
    /\ parts \in 0..MaxText /\ todo \in 0..parts /\ batch \in 0..MaxChars
    /\ seq \in Nat /\ current \in BOOLEAN /\ at \in Place /\ code \in Code
    /\ sent \in Seq([first : 1..MaxText, last : 1..MaxText, seq : Nat])

(* The bisection finds the longest prefix that fits (daemon.py:1119-1141).  *)
BisectionIsExact == \A f \in 1..MaxText, l \in 1..MaxText : f <= l =>
    LET n == Longest(f, l) IN
    /\ n = 0 \/ Fits(f, n)
    /\ n < l - f + 1 => ~Fits(f, n + 1)

(* The preview is cut from the text as the provider sent it: packets come   *)
(* in order, under growing numbers, no character twice, none that was not   *)
(* received, each within the byte budget and the batch size, and what the   *)
(* batcher still holds comes after all of them (daemon.py:240-286,          *)
(* 1102-1161).                                                              *)
PreviewIsCut ==
    /\ \A i \in DOMAIN sent :
         /\ sent[i].first <= sent[i].last /\ sent[i].last <= parts - todo - batch
         /\ Bytes(sent[i].first, sent[i].last) <= DeltaBudget
         /\ sent[i].last - sent[i].first < MaxChars
         /\ i > 1 => sent[i].first > sent[i - 1].last /\ sent[i].seq > sent[i - 1].seq
         /\ sent[i].seq < seq

(* Nothing of the preview is missing as long as every number was sent and   *)
(* the request is current, unless a character fits no packet or the worker  *)
(* fails.                                                                   *)
Lossless == /\ current /\ at \notin {"ended", "failing", "failed"} /\ seq = Len(sent) + 2
            /\ \A i \in 1..parts : width[i] <= DeltaBudget
PreviewIsWhole == Lossless =>
    UNION {sent[i].first..sent[i].last : i \in DOMAIN sent} = 1..parts - todo - batch

(* An answer is committed only if the provider said it was complete, it has *)
(* something to read, it fits its packet, nothing of it is still held back, *)
(* and no failure came before (openai.py:216-218).                          *)
OnlyWholeAnswers == at = "ended" =>
    /\ done /\ ink /\ code = "" /\ current
    /\ todo = 0 /\ batch = 0 /\ Bytes(1, parts) <= EndBudget

(* A superseded worker sends nothing any more, neither text nor error, and  *)
(* does not commit (daemon.py:1094-1100).                                   *)
SupersededIsSilent == [][~current => seq' = seq /\ sent' = sent /\ at' # "ended"]_vars

(* Whatever the provider sends before its response ends, the worker comes   *)
(* to an end (daemon.py:1163-1245).                                         *)
WorkerEnds == <>(at \in {"ended", "failed", "dropped"})
=============================================================================

------------------------------ MODULE SseStream ------------------------------
(***************************************************************************)
(* OpenAiProvider::stream: the lines of a streamed completion are parsed    *)
(* one by one and become events for a receiver, the tool calls among them   *)
(* assembled from their pieces; beside it collect_events_from_sse, which    *)
(* does the same to a whole body and takes its lines in step.  The server   *)
(* follows the protocol; the receiver may be dropped and the connection may *)
(* break at any time.  A text or a piece of arguments is the position of    *)
(* its line in the body.                                                    *)
(***************************************************************************)
EXTENDS Naturals, Sequences, FiniteSets

CONSTANTS MaxCalls,   \* bound: tool calls in a completion
          MaxLines    \* bound: lines of a body

ASSUME SseAssumption == MaxCalls \in Nat \ {0} /\ MaxLines \in Nat

Indices == 0..(MaxCalls - 1)

\* A line: a comment, "[DONE]", usage without choices, or the delta of a choice.
Lines == [data : {"comment", "done", "usage", "choice"}, content : BOOLEAN,
          call : {"none", "start", "args"}, index : Indices,
          finish : {"none", "stop", "length"}]

VARIABLES
  phase,    \* "send": the request; "read"; "ended": returned after a response;
            \* "failed": returned without one
  body,     \* the lines received
  acc,      \* tool_call_acc
  events,   \* what was sent to the receiver
  open,     \* the receiver is there
  collect   \* the locals of collect_events_from_sse behind the lines received

streamVars == <<phase, body, acc, events, open, collect>>

NoCall == [call |-> MaxCalls, args |-> <<>>]
Empty  == [i \in Indices |-> NoCall]

Event(t, id, args) == [type |-> t, id |-> id, args |-> args]

CollectStart == [events |-> <<>>, acc |-> Empty, usage |-> FALSE, done |-> FALSE]

StreamInit ==
  /\ phase = "send" /\ body = <<>> /\ acc = Empty
  /\ events = <<>> /\ open = TRUE
  /\ collect = CollectStart

-----------------------------------------------------------------------------
(* What the two parsers share. *)

\* The kind of chunk a line is; of several things a delta holds one counts.
Parse(l) ==
  IF l.data # "choice"      THEN l.data
  ELSE IF l.call # "none"   THEN l.call
  ELSE IF l.finish = "stop" THEN "done"
  ELSE IF l.finish # "none" THEN "finish"
  ELSE IF l.content         THEN "text" ELSE "blank"

Overwrite(a, l, p) ==               \* a start replaces what is there
  IF Parse(l) = "start" THEN [a EXCEPT ![0] = [call |-> l.index, args |-> <<>>]]
  ELSE IF Parse(l) = "args" /\ a[l.index] # NoCall
         THEN [a EXCEPT ![l.index].args = Append(@, p)] ELSE a

\* Every start goes to slot 0 unless that is taken; arguments go to the slot of
\* their index if it is in use.
Accumulate(a, l, p) ==
  IF Parse(l) = "start" /\ a[0] = NoCall
    THEN [a EXCEPT ![0] = [call |-> l.index, args |-> <<>>]]
  ELSE IF Parse(l) = "args" /\ a[l.index] # NoCall
    THEN [a EXCEPT ![l.index].args = Append(@, p)] ELSE a

\* The slots in use, in the order of their indices.
ToolUses(a) ==
  LET used   == {i \in Indices : a[i] # NoCall}
      Use(k) == CHOOSE i \in used : Cardinality({j \in used : j < i}) = k - 1
  IN  [k \in 1..Cardinality(used) |-> Event("ToolUse", a[Use(k)].call, a[Use(k)].args)]

-----------------------------------------------------------------------------
(* collect_events_from_sse. *)

CollectNoCalls(s, l, p) ==          \* leaves out the calls
  IF s.done THEN s
  ELSE IF Parse(l) = "done"
    THEN [s EXCEPT !.done = TRUE, !.events = Append(@, Event("Done", 0, <<>>))]
  ELSE IF Parse(l) = "text"
    THEN [s EXCEPT !.events = Append(@, Event("TextDelta", p, <<>>))] ELSE s

Collect(s, l, p) ==
  IF s.done THEN s
  ELSE IF Parse(l) = "done"
    THEN [s EXCEPT !.done = TRUE, !.events =
            @ \o ToolUses(s.acc)
              \o (IF s.usage THEN <<Event("Usage", 0, <<>>)>> ELSE <<>>)
              \o <<Event("Done", 0, <<>>)>>]
  ELSE IF Parse(l) = "text"
    THEN [s EXCEPT !.events = Append(@, Event("TextDelta", p, <<>>))]
  ELSE [s EXCEPT !.acc = Accumulate(@, l, p), !.usage = @ \/ Parse(l) = "usage"]

-----------------------------------------------------------------------------
(* The server and the receiver, external. *)

Started  == {i \in Indices : \E p \in DOMAIN body : body[p].call = "start" /\ body[p].index = i}
Finished == \E p \in DOMAIN body : body[p].finish # "none"

\* What a server sends next: the calls start in the order of their indices, the
\* pieces of one come after its start, and a last delta gives the reason.
Legal(l) ==
  /\ Len(body) < MaxLines
  /\ CASE l.data = "choice" ->
            /\ ~Finished
            /\ l.call = "none" => l.index = 0
            /\ l.call = "start" => l.index \notin Started /\ 0..(l.index - 1) \subseteq Started
            /\ l.call = "args" => l.index \in Started
       [] l.data = "done" -> Finished
       [] OTHER -> TRUE
  /\ l.data # "choice" =>
       ~l.content /\ l.call = "none" /\ l.index = 0 /\ l.finish = "none"

ReceiverDrops ==
  /\ open
  /\ open' = FALSE
  /\ UNCHANGED <<phase, body, acc, events, collect>>

-----------------------------------------------------------------------------
(* stream. *)

Send(es) == events' = IF open THEN events \o es ELSE events

\* The request cannot be built or sent: an error, and no event.
SendFails ==
  /\ phase = "send"
  /\ phase' = "failed"
  /\ UNCHANGED <<body, acc, events, open, collect>>

StatusError ==
  /\ phase = "send"
  /\ phase' = "ended"
  /\ Send(<<Event("Error", 0, <<>>)>>)
  /\ UNCHANGED <<body, acc, open, collect>>

Responds ==
  /\ phase = "send"
  /\ phase' = "read"
  /\ UNCHANGED <<body, acc, events, open, collect>>

Take(l, kinds) ==
  /\ phase = "read" /\ Legal(l) /\ Parse(l) \in kinds
  /\ body' = Append(body, l)
  /\ collect' = Collect(collect, l, Len(body) + 1)
  /\ UNCHANGED open

Skip(l) ==
  /\ Take(l, {"comment", "blank", "finish"})
  /\ UNCHANGED <<phase, acc, events>>

TextUnlessCall(l) ==                \* takes text beside a call for noise
  /\ Take(l, {"text"})
  /\ IF acc = Empty THEN Send(<<Event("TextDelta", Len(body) + 1, <<>>)>>)
                    ELSE UNCHANGED events
  /\ UNCHANGED <<phase, acc>>

\* Only a text that cannot be delivered ends the stream.
Text(l) ==
  /\ Take(l, {"text"})
  /\ Send(<<Event("TextDelta", Len(body) + 1, <<>>)>>)
  /\ phase' = IF open THEN "read" ELSE "ended"
  /\ UNCHANGED acc

Call(l) ==
  /\ Take(l, {"start", "args"})
  /\ acc' = Accumulate(acc, l, Len(body) + 1)
  /\ UNCHANGED <<phase, events>>

Usage(l) ==
  /\ Take(l, {"usage"})
  /\ Send(<<Event("Usage", 0, <<>>)>>)
  /\ UNCHANGED <<phase, acc>>

Flush == Send(Append(ToolUses(acc), Event("Done", 0, <<>>))) /\ acc' = Empty

DoneGoesOn(l) ==                    \* does not return
  /\ Take(l, {"done"})
  /\ Flush
  /\ UNCHANGED phase

Done(l) ==
  /\ Take(l, {"done"})
  /\ Flush
  /\ phase' = "ended"

\* The connection closes, in order or not; one that breaks delivers no call.
BodyEnds ==
  /\ phase = "read"
  /\ Flush
  /\ phase' = "ended"
  /\ UNCHANGED <<body, open, collect>>

StreamBreaks ==
  /\ phase = "read"
  /\ Send(<<Event("Error", 0, <<>>)>>)
  /\ phase' = "ended"
  /\ UNCHANGED <<body, acc, open, collect>>

StreamNext ==
  \/ SendFails \/ StatusError \/ Responds \/ ReceiverDrops
  \/ (\E l \in Lines : Skip(l) \/ Text(l) \/ Call(l) \/ Usage(l) \/ Done(l))
  \/ BodyEnds \/ StreamBreaks

StreamSpec == StreamInit /\ [][StreamNext]_streamVars

-----------------------------------------------------------------------------
Events == [type : {"TextDelta", "ToolUse", "Usage", "Done", "Error"},
           id : Nat, args : Seq(1..MaxLines)]

Slots == [Indices -> [call : 0..MaxCalls, args : Seq(1..MaxLines)]]

StreamTypeOK ==
  /\ phase \in {"send", "read", "ended", "failed"}
  /\ body \in Seq(Lines) /\ Len(body) <= MaxLines
  /\ acc \in Slots
  /\ events \in Seq(Events)
  /\ open \in BOOLEAN
  /\ collect \in [events : Seq(Events), acc : Slots, usage : BOOLEAN, done : BOOLEAN]

Final(k) == events[k].type \in {"Done", "Error"}

(* "Always sends Done or Error as the final event", once: a receiver that    *)
(* stays gets no second one and nothing after it, and one of the two whenever *)
(* the server has answered.                                                  *)
EndsOnce ==
  /\ \A k \in DOMAIN events : Final(k) => k = Len(events) /\ phase = "ended"
  /\ phase = "ended" /\ open => events # <<>> /\ Final(Len(events))

\* s lists the members of P, each once and in order.
Enumerates(s, P) ==
  /\ \A k \in DOMAIN s : s[k] \in P
  /\ \A p \in P : \E k \in DOMAIN s : s[k] = p
  /\ \A j, k \in DOMAIN s : j < k => s[j] < s[k]

Texts == {p \in DOMAIN body : body[p].content /\ body[p].call = "none" /\ body[p].finish = "none"}

IsText(v) == v.type = "TextDelta"

\* The texts among some events are those at the positions P, in order.
TextsOf(es, P) ==
  /\ \A k \in DOMAIN es : IsText(es[k]) => \E p \in P : es[k] = Event("TextDelta", p, <<>>)
  /\ \A p \in P : \E k \in DOMAIN es : es[k] = Event("TextDelta", p, <<>>)
  /\ \A j, k \in DOMAIN es : j < k /\ IsText(es[j]) /\ IsText(es[k]) => es[j].id < es[k].id

(* Each text in a delta of its own reaches a receiver that stays, in order   *)
(* and once, whatever comes between.                                         *)
TextsDelivered == open => TextsOf(events, Texts)

Pieces(i) == {p \in DOMAIN body : body[p].call = "args" /\ body[p].index = i}

IsUse(v) == v.type = "ToolUse"

Completed == phase = "ended" /\ open /\ events # <<>> /\ events[Len(events)].type = "Done"

(* However the pieces of several tool calls are mixed, a completion that is  *)
(* delivered has its first call, and a call that it has is one the server    *)
(* started, is there once, and has as its arguments the pieces that came for *)
(* it, in order, and none of another call.  It says nothing for the further  *)
(* calls, which stream() drops.                                              *)
CallsWhole ==
  Completed =>
    /\ 0 \in Started => \E k \in DOMAIN events : IsUse(events[k]) /\ events[k].id = 0
    /\ \A k \in DOMAIN events : IsUse(events[k]) =>
         events[k].id \in Started /\ Enumerates(events[k].args, Pieces(events[k].id))
    /\ \A j, k \in DOMAIN events :
         IsUse(events[j]) /\ IsUse(events[k]) /\ events[j].id = events[k].id => j = k

IsUsage(v) == v.type = "Usage"

\* Two sequences of events are one and the same without their Usage.
SameBesideUsage(s, t) ==
  /\ \A j \in DOMAIN s : ~IsUsage(s[j]) => \E m \in DOMAIN t : t[m] = s[j]
  /\ \A m \in DOMAIN t : ~IsUsage(t[m]) => \E j \in DOMAIN s : s[j] = t[m]
  /\ \A j, k \in DOMAIN s, m, n \in DOMAIN t :
       s[j] = t[m] /\ s[k] = t[n] /\ ~IsUsage(s[j]) /\ ~IsUsage(s[k]) => (j < k <=> m < n)

(* The two parsers agree: for a body that ends in order, streaming delivers   *)
(* what collecting it does, usage aside, which comes when it comes.          *)
AsCollected == Completed /\ collect.done => SameBesideUsage(events, collect.events)

-----------------------------------------------------------------------------
(* What strengthens the invariants above. *)

OneSlot(a) == \A i \in Indices \ {0} : a[i] = NoCall

\* Slot 0 is free, or holds the first call with what came of its arguments.
FirstSlot(a) ==
  IF 0 \in Started THEN a[0].call = 0 /\ Enumerates(a[0].args, Pieces(0))
                   ELSE a[0] = NoCall /\ Started = {} /\ Pieces(0) = {}

ReadInv ==
  phase \in {"send", "read"} =>
    /\ FirstSlot(acc) /\ collect.acc = acc /\ ~collect.done
    /\ \A k \in DOMAIN events : IsText(events[k]) \/ IsUsage(events[k])
    /\ \A k \in DOMAIN collect.events : IsText(collect.events[k])
    /\ TextsOf(collect.events, Texts)

StreamInv ==
  /\ OneSlot(acc) /\ OneSlot(collect.acc) /\ ReadInv
  /\ EndsOnce /\ TextsDelivered /\ CallsWhole /\ AsCollected
=============================================================================

---------------------------------- MODULE Dtmf ----------------------------------
(***************************************************************************)
(* The tone generator of hw1 (dtmf.c), and its detector on the audio that  *)
(* the generator wrote.  A sample is the symbol of the tone it is part of, *)
(* or Silence: the cosines of the generator, the noise mixed in, the       *)
(* Goertzel filters and the thresholds of the detector are left out.  What *)
(* they make of a block with a sound in it is a choice: any key, since the *)
(* row and the column may be from different tones, or none.                *)
(***************************************************************************)
EXTENDS Integers, Sequences, FiniteSetsExt

CONSTANTS Symbols,     \* the keys of the dial
          Silence,
          EventLists,  \* what the generator may read: lists of events
          Length,      \* how many samples it is to write
          Garbage,     \* what an uninitialised start or end may hold
          BlockSize    \* block_size, 10..1000 in the code

ASSUME DtmfAssumption ==
    /\ Silence \notin Symbols
    /\ Length \in Nat /\ BlockSize \in Nat \ {0, 1} /\ Garbage \subseteq Int
    /\ \A list \in EventLists :
         list \in Seq([start : Int, end : Int, symbol : {list[k].symbol : k \in DOMAIN list}])

VARIABLES pc,
          events,      \* the lines not read yet
          event,       \* start, end and symbol of dtmf_generate
          audio,       \* the samples written; i is their number
          index,       \* currIndex of dtmf_detect
          found        \* the lines it wrote

\* What the run started from: the events, the garbage in end, and whether
\* blocks are long enough for the thresholds: for the tone of one key that
\* fills a block to be always found.
VARIABLE given

vars == <<pc, events, event, audio, index, found, given>>

Event(start, end, symbol) == [start |-> start, end |-> end, symbol |-> symbol]

Init ==
    /\ given \in [events : EventLists, end : Garbage, clear : BOOLEAN]
    /\ events = given.events
    /\ \E start \in Garbage, s \in Symbols \cup {Silence} : event = Event(start, given.end, s)
    /\ pc = "generate" /\ audio = <<>> /\ index = 0 /\ found = <<>>

i == Len(audio)

\* A line is read one sample late.
CurrentLate == IF i <= event.end THEN event
               ELSE IF events = <<>> THEN Event(0, 0, event.symbol) ELSE Head(events)

\* The event for sample i: a line is read once the last event is over, and at
\* the end of the input the event is empty.
Current == IF i < event.end THEN event
           ELSE IF events = <<>> THEN Event(0, 0, event.symbol) ELSE Head(events)

Rest == IF i < event.end \/ events = <<>> THEN events ELSE Tail(events)

Sounds(e) == e.start <= i /\ i < e.end

\* A line just read whose start is negative or behind its end, or a key that
\* is none.
Refused(e) == \/ i >= event.end /\ (e.start < 0 \/ e.start > e.end)
              \/ Sounds(e) /\ e.symbol \notin Symbols

\* One round of the loop of dtmf_generate.
Generate ==
    /\ pc = "generate" /\ i < Length /\ ~Refused(Current)
    /\ event' = Current /\ events' = Rest
    /\ audio' = Append(audio, IF Sounds(Current) THEN Current.symbol ELSE Silence)
    /\ UNCHANGED <<pc, index, found, given>>

GenerateFails ==
    /\ pc = "generate" /\ i < Length /\ Refused(Current) /\ pc' = "failed"
    /\ UNCHANGED <<events, event, audio, index, found, given>>

Generated ==
    /\ pc = "generate" /\ i = Length /\ pc' = "detect"
    /\ UNCHANGED <<events, event, audio, index, found, given>>

-------------------------------------------------------------------------------
\* The samples of a block of n at the current index.
Samples(n) == {audio[k] : k \in (index + 1)..(index + n)}

\* What may be found in samples: nothing in silence, and else what the row and
\* the column that are strongest, of whatever samples, make, unless a threshold
\* is missed.
Heard(samples) == IF samples \subseteq {Silence} THEN {Silence} ELSE Symbols \cup {Silence}

\* The tone that fills a block is found if the block is long enough.
Tones(samples) == IF given.clear /\ Cardinality(samples) = 1 THEN samples ELSE Heard(samples)

\* Blocks of one key are joined, those with a gap between them too.
ReportMerged(end, symbol) ==
    found' = IF symbol = Silence THEN found
             ELSE IF found # <<>> /\ found[Len(found)].symbol = symbol
                  THEN [found EXCEPT ![Len(found)].end = end]
                  ELSE Append(found, Event(index, end, symbol))

\* A tone found is a line of its own, whatever the last line was.
Report(end, symbol) ==
    found' = IF symbol = Silence THEN found
             ELSE Append(found, Event(index, end, symbol))

\* A block of BlockSize samples: whatever was found before, its tone is
\* written as an event of its own.
Block ==
    /\ pc = "detect" /\ index + BlockSize <= Len(audio)
    /\ \E s \in Tones(Samples(BlockSize)) : Report(index + BlockSize, s)
    /\ index' = index + BlockSize
    /\ UNCHANGED <<pc, events, event, audio, given>>

\* The last block, which the end of the input cuts short, with one sample too
\* many counted.
LastBlock ==
    /\ pc = "detect" /\ index + BlockSize > Len(audio) /\ pc' = "done"
    /\ \E s \in Heard(Samples(Len(audio) - index)) : Report(Len(audio) + 1, s)
    /\ index' = Len(audio) + 1
    /\ UNCHANGED <<events, event, audio, given>>

Finished == pc \in {"done", "failed"} /\ UNCHANGED vars

Next == Generate \/ GenerateFails \/ Generated \/ Block \/ LastBlock \/ Finished

Spec == Init /\ [][Next]_vars

-------------------------------------------------------------------------------
(***************************************************************************)
(* Properties.                                                             *)
(***************************************************************************)

\* The events dtmf_generate asks for: not empty, in order, apart, and within
\* the samples to be written; and no garbage that looks like an event.
Proper ==
    /\ given.end <= 0
    /\ \A k \in DOMAIN given.events :
         LET e == given.events[k]
         IN  /\ 0 <= e.start /\ e.start < e.end /\ e.end <= Length /\ e.symbol \in Symbols
             /\ \A j \in 1..(k - 1) : given.events[j].end <= e.start

\* The tone of sample k: that of the event it lies in.
ToneAt(k) == LET in == {n \in DOMAIN given.events :
                          given.events[n].start <= k /\ k < given.events[n].end}
             IN  IF in = {} THEN Silence ELSE given.events[Max(in)].symbol

\* Reading one event at a time (dtmf.c:98-137) loses none: every sample
\* written is that of the event its index lies in, and none is refused.
Synthesized ==
    Proper => /\ pc # "failed"
              /\ \A k \in 1..Len(audio) : audio[k] = ToneAt(k - 1)

\* From events to audio and back (dtmf.c:301-427).  Where a block is long
\* enough, each stretch of an event that is sure to hold a block has a line of
\* its own, with the key of the event: lines are not joined, and none is too
\* short.  Whatever the filters make of other blocks, lines are in order,
\* apart, of one block at most, and never of silence.
Overlap(e, f) == e.start < f.end /\ f.start < e.end
Inside(f, e)  == e.start <= f.start /\ f.end <= e.end
RoundTrip ==
    Proper /\ pc = "done" =>
      /\ given.clear =>
           \A k \in DOMAIN given.events :
             LET e == given.events[k]
             IN  /\ \A p \in e.start..(e.end - 2 * BlockSize + 1) :
                      \E m \in DOMAIN found : /\ found[m].symbol = e.symbol
                                              /\ found[m].start \in p..(p + BlockSize - 1)
                                              /\ found[m].end <= e.end
                 /\ \A m \in DOMAIN found : Inside(found[m], e) => found[m].symbol = e.symbol
      /\ \A m \in DOMAIN found :
           /\ \E k \in DOMAIN given.events : Overlap(given.events[k], found[m])
           /\ found[m].end - found[m].start <= BlockSize
           /\ found[m].end <= Length + (IF m = Len(found) THEN 1 ELSE 0)
           /\ m > 1 => found[m - 1].end <= found[m].start
===============================================================================

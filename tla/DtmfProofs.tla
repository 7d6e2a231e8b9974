------------------------------- MODULE DtmfProofs -------------------------------
(***************************************************************************)
(* Proofs about module Dtmf: every sample the generator writes is that of  *)
(* the event its index lies in, and what the detector makes of the samples *)
(* are events again.  The invariants speak of the one event the generator  *)
(* has in hand, and of the blocks the detector has left behind.            *)
(***************************************************************************)
EXTENDS Dtmf, FiniteSetTheorems, SequenceTheorems, TLAPS

Line(k) == given.events[k]
NLines == Len(given.events)
NRead == NLines - Len(events)
Lines == {Line(k) : k \in 1..NLines}

\* What is left of the input is its end, and the samples are tones.
InputOK ==
    /\ given \in [events : EventLists, end : Garbage, clear : BOOLEAN]
    /\ events \in Seq(Lines) /\ Len(events) <= NLines
    /\ \A k \in 1..Len(events) : events[k] = Line(NRead + k)
    /\ event.start \in Int /\ event.end \in Int
    /\ audio \in Seq(Symbols \cup {Silence}) /\ Len(audio) <= Length
    /\ pc \in {"generate", "failed", "detect", "done"}
    /\ pc \in {"detect", "done"} => Len(audio) = Length

\* The lines before the one in hand are over, and that one is read no sooner
\* than the line before it is over, and no later.
LineInHand ==
    /\ \A k \in 1..(NRead - 1) : Line(k).end <= i
    /\ \/ NRead = 0 /\ event.end <= 0 /\ (events # << >> => i = 0)
       \/ NRead > 0 /\ event = Line(NRead) /\ (events # << >> => i <= event.end)
       \/ /\ events = << >> /\ event.end = 0
          /\ NRead > 0 => Line(NRead).end <= i

GeneratorInvariant ==
    /\ InputOK
    /\ Proper => LineInHand /\ Synthesized

\* What is found is in order, behind the block in hand, and overlaps an event.
\* If blocks are long enough, what is found inside of an event has its key, and
\* where an event goes on for two blocks a block of it is found before the
\* detector is a block behind.
Reports == [start : Int, end : Int, symbol : Symbols]
TouchesEvent(f) == \E k \in DOMAIN given.events : Overlap(given.events[k], f)
HasKey(f) == \A k \in DOMAIN given.events :
                Inside(f, given.events[k]) => f.symbol = given.events[k].symbol
Stretch(k, p) == p \in Line(k).start..(Line(k).end - 2 * BlockSize + 1)
IsFound(k, p) == \E m \in DOMAIN found : /\ found[m].symbol = Line(k).symbol
                                         /\ found[m].start \in p..(p + BlockSize - 1)
                                         /\ found[m].end <= Line(k).end

DetectorInvariant ==
    /\ index \in Nat /\ found \in Seq(Reports)
    /\ \A m \in 1..Len(found) : m > 1 => found[m - 1].end <= found[m].start
    /\ \A m \in 1..Len(found) : found[m].end - found[m].start <= BlockSize
    /\ pc # "done" => index <= Length /\ \A m \in 1..Len(found) : found[m].end <= index
    /\ pc = "done" => \A m \in 1..Len(found) :
                         found[m].end <= Length + (IF m = Len(found) THEN 1 ELSE 0)
    /\ Proper => \A m \in 1..Len(found) : TouchesEvent(found[m])
    /\ Proper /\ given.clear => \A m \in 1..Len(found) : HasKey(found[m])
    /\ Proper /\ given.clear => \A k \in 1..NLines : \A p \in Int : Stretch(k, p) =>
                    IsFound(k, p) \/ (pc # "done" /\ index < p + BlockSize)

-------------------------------------------------------------------------------
\* The lines of the input are events.
LEMMA LinesAre ==
    ASSUME InputOK
    PROVE  /\ NLines \in Nat /\ NRead \in 0..NLines /\ Len(events) \in Nat
           /\ DOMAIN given.events = 1..NLines
           /\ \A k \in 1..NLines : Line(k).start \in Int /\ Line(k).end \in Int
  <1> DEFINE E == [start : Int, end : Int, symbol : {given.events[k].symbol : k \in DOMAIN given.events}]
  <1>1. given.events \in Seq(E)
    BY DtmfAssumption DEF InputOK
  <1>2. NLines \in Nat /\ DOMAIN given.events = 1..NLines
    BY <1>1 DEF NLines
  <1>3. ASSUME NEW k \in 1..NLines PROVE Line(k).start \in Int /\ Line(k).end \in Int
    <2>1. Line(k) \in E
      <3> HIDE DEF E
      <3> QED
        BY <1>1, <1>2, <1>3 DEF NLines, Line
    <2> QED
      BY <2>1
  <1>4. Len(events) \in Nat /\ Len(events) <= NLines
    BY DEF InputOK
  <1> QED
    BY <1>2, <1>3, <1>4 DEF NRead

\* The tone of a sample in an event, which is in no other.
LEMMA ToneIs ==
    ASSUME InputOK, Proper, NEW n \in 1..NLines, NEW k \in Int,
           Line(n).start <= k, k < Line(n).end
    PROVE  ToneAt(k) = Line(n).symbol
  <1> DEFINE in == {m \in DOMAIN given.events :
                      given.events[m].start <= k /\ k < given.events[m].end}
  <1>1. /\ DOMAIN given.events = 1..NLines /\ NLines \in Nat
        /\ \A m \in 1..NLines : Line(m).start \in Int /\ Line(m).end \in Int
    BY LinesAre
  <1>2. ASSUME NEW l \in 1..NLines, NEW m \in 1..NLines, l < m
        PROVE  Line(l).end <= Line(m).start
    <2>1. l \in 1..(m - 1) /\ m \in DOMAIN given.events
      BY <1>1, <1>2
    <2> QED
      BY <2>1 DEF Proper, Line
  <1>3. ASSUME NEW m \in in PROVE m = n
    <2>1. m \in 1..NLines /\ Line(m).start <= k /\ k < Line(m).end
      BY <1>1, <1>3 DEF Line
    <2> QED
      BY <1>1, <1>2, <2>1
  <1>4. in = {n}
    BY <1>1, <1>3 DEF Line
  <1>5. Max(in) = n
    BY <1>4 DEF Max
  <1> HIDE DEF in
  <1>6. ToneAt(k) = IF in = {} THEN Silence ELSE given.events[Max(in)].symbol
    BY DEF ToneAt, in
  <1> QED
    BY <1>4, <1>5, <1>6 DEF Line

\* A sample in no event is silent.
LEMMA NoTone ==
    ASSUME InputOK, NEW k \in Int,
           \A n \in 1..NLines : ~(Line(n).start <= k /\ k < Line(n).end)
    PROVE  ToneAt(k) = Silence
  BY LinesAre DEF ToneAt, Line

\* And where there is a tone, there is an event.
LEMMA ToneIsOf ==
    ASSUME InputOK, Proper, NEW k \in Int, ToneAt(k) # Silence
    PROVE  \E n \in 1..NLines : /\ Line(n).start <= k /\ k < Line(n).end
                                /\ Line(n).symbol = ToneAt(k)
  BY ToneIs, NoTone

\* The generator starts with garbage in start, end and symbol.
LEMMA GeneratorInit == Init => GeneratorInvariant
  <1> SUFFICES ASSUME Init PROVE GeneratorInvariant
    OBVIOUS
  <1> DEFINE E == [start : Int, end : Int, symbol : {given.events[k].symbol : k \in DOMAIN given.events}]
  <1>0. given \in [events : EventLists, end : Garbage, clear : BOOLEAN]
    BY DEF Init
  <1>1. given.events \in Seq(E)
    BY <1>0, DtmfAssumption
  <1>2. events \in Seq(Lines) /\ Len(events) = NLines /\ NLines \in Nat
    <2> HIDE DEF E
    <2>1. events = given.events /\ NLines \in Nat /\ DOMAIN events = 1..NLines
      BY <1>1 DEF Init, NLines
    <2>2. events \in [1..NLines -> Lines]
      BY <1>1, <2>1 DEF NLines, Lines, Line
    <2>3. events \in Seq(Lines)
      BY <2>1, <2>2, SeqDef
    <2> QED
      BY <2>1, <2>3 DEF NLines
  <1>3. event.start \in Int /\ event.end \in Int /\ event.end = given.end
    <2>1. PICK start \in Garbage, s \in Symbols \cup {Silence} : event = Event(start, given.end, s)
      BY DEF Init
    <2>2. given.end \in Garbage /\ Garbage \subseteq Int
      BY <1>0, DtmfAssumption
    <2> QED
      BY <2>1, <2>2 DEF Event
  <1>4. audio = << >> /\ audio \in Seq(Symbols \cup {Silence}) /\ Len(audio) = 0
    BY EmptySeq DEF Init
  <1>5. NRead = 0 /\ \A k \in 1..Len(events) : events[k] = Line(NRead + k)
    BY <1>2 DEF NRead, Init, Line
  <1>6. InputOK
    BY <1>0, <1>2, <1>3, <1>4, <1>5, DtmfAssumption DEF InputOK, Init
  <1>7. Proper => LineInHand
    BY <1>3, <1>4, <1>5 DEF LineInHand, Proper, i
  <1>8. Synthesized
    BY <1>4 DEF Synthesized, Init
  <1> QED
    BY <1>6, <1>7, <1>8 DEF GeneratorInvariant

\* A round in which the event in hand is kept, and one in which a line is read.
LEMMA CurrentIs ==
    ASSUME GeneratorInvariant, Generate
    PROVE  /\ InputOK'
           /\ NLines' = NLines /\ NRead' \in 0..NLines
           /\ event' = Current /\ i' = i + 1 /\ i \in Nat
           /\ \/ i < event.end /\ event' = event /\ events' = events /\ NRead' = NRead
              \/ /\ ~(i < event.end) /\ events = << >> /\ events' = events /\ NRead' = NRead
                 /\ event'.start = 0 /\ event'.end = 0
              \/ /\ ~(i < event.end) /\ events # << >> /\ NRead' = NRead + 1
                 /\ event' = Line(NRead + 1) /\ NRead + 1 <= NLines
  <1>1. /\ InputOK /\ pc = "generate" /\ i < Length /\ ~Refused(Current)
        /\ event' = Current /\ events' = Rest /\ UNCHANGED <<pc, given>>
        /\ audio' = Append(audio, IF Sounds(Current) THEN Current.symbol ELSE Silence)
    BY DEF GeneratorInvariant, Generate
  <1>2. /\ NLines \in Nat /\ NRead \in 0..NLines /\ Len(events) \in Nat
        /\ \A k \in 1..NLines : Line(k).start \in Int /\ Line(k).end \in Int
    BY <1>1, LinesAre
  <1>3. i \in Nat /\ events \in Seq(Lines) /\ audio \in Seq(Symbols \cup {Silence})
        /\ Length \in Nat
    BY <1>1, DtmfAssumption DEF InputOK, i
  <1>4. Append(audio, IF Sounds(Current) THEN Current.symbol ELSE Silence)
            \in Seq(Symbols \cup {Silence})
    BY <1>1, <1>3 DEF Refused
  <1>5. audio' \in Seq(Symbols \cup {Silence}) /\ i' = i + 1 /\ i' <= Length
    BY <1>1, <1>3, <1>4, AppendProperties DEF i
  <1>6. NLines' = NLines /\ Lines' = Lines /\ \A k : Line(k)' = Line(k)
    BY <1>1 DEF NLines, Lines, Line
  <1>7. CASE i < event.end
    <2>1. event' = event /\ events' = events /\ NRead' = NRead
      BY <1>1, <1>6, <1>7 DEF Current, Rest, NRead
    <2> QED
      BY <1>1, <1>2, <1>3, <1>5, <1>6, <1>7, <2>1 DEF InputOK, i
  <1>8. CASE ~(i < event.end) /\ events = << >>
    <2>1. event' = Event(0, 0, event.symbol) /\ events' = events /\ NRead' = NRead
      BY <1>1, <1>6, <1>8 DEF Current, Rest, NRead
    <2>2. event'.start = 0 /\ event'.end = 0
      BY <2>1 DEF Event
    <2> QED
      BY <1>1, <1>2, <1>3, <1>5, <1>6, <1>8, <2>1, <2>2 DEF InputOK, i
  <1>9. CASE ~(i < event.end) /\ events # << >>
    <2>1. event' = Head(events) /\ events' = Tail(events)
      BY <1>1, <1>9 DEF Current, Rest
    <2>2. /\ Tail(events) \in Seq(Lines) /\ Len(Tail(events)) = Len(events) - 1
          /\ Len(events) >= 1 /\ Head(events) = events[1]
          /\ \A k \in 1..(Len(events) - 1) : Tail(events)[k] = events[k + 1]
      BY <1>3, <1>9
    <2>3. NRead' = NRead + 1 /\ NRead + 1 <= NLines /\ event' = Line(NRead + 1)
      BY <1>1, <1>2, <1>6, <2>1, <2>2 DEF InputOK, NRead
    <2>4. events' \in Seq(Lines) /\ \A k \in 1..Len(events') : events'[k] = Line(NRead + 1 + k)
      BY <1>1, <1>2, <2>1, <2>2 DEF InputOK
    <2>5. (Len(events) <= NLines /\ \A k \in 1..Len(events) : events[k] = Line(NRead + k))'
      BY <1>1, <1>2, <1>6, <2>1, <2>2, <2>3, <2>4 DEF InputOK, Line
    <2>6. event'.start \in Int /\ event'.end \in Int
      BY <1>2, <2>3
    <2>7. given' \in [events : EventLists, end : Garbage, clear : BOOLEAN] /\ pc' = "generate"
      BY <1>1 DEF InputOK
    <2> QED
      BY <1>2, <1>3, <1>5, <1>6, <1>9, <2>3, <2>4, <2>5, <2>6, <2>7, <1>1 DEF InputOK, i
  <1> QED
    BY <1>7, <1>8, <1>9

\* The line read is the one in hand until it is over, and it is not over before
\* the next line starts.
LEMMA LineInHandStep ==
    ASSUME GeneratorInvariant, Generate, Proper
    PROVE  LineInHand'
  <1>1. /\ InputOK /\ LineInHand
        /\ NLines \in Nat /\ NRead \in 0..NLines
        /\ DOMAIN given.events = 1..NLines
        /\ \A k \in 1..NLines : Line(k).start \in Int /\ Line(k).end \in Int
    BY LinesAre DEF GeneratorInvariant
  <1>2. given' = given /\ \A k : Line(k)' = Line(k)
    BY DEF Generate, Line
  <1>3. \A k \in 1..NLines : /\ 0 <= Line(k).start /\ Line(k).start < Line(k).end
                             /\ \A j \in 1..(k - 1) : Line(j).end <= Line(k).start
    BY <1>1 DEF Proper, Line
  <1>4. /\ NLines' = NLines /\ i' = i + 1 /\ i \in Nat
        /\ \/ i < event.end /\ event' = event /\ events' = events /\ NRead' = NRead
           \/ /\ ~(i < event.end) /\ events = << >> /\ events' = events /\ NRead' = NRead
              /\ event'.start = 0 /\ event'.end = 0
           \/ /\ ~(i < event.end) /\ events # << >> /\ NRead' = NRead + 1
              /\ event' = Line(NRead + 1) /\ NRead + 1 <= NLines
    BY CurrentIs
  <1>5. event.end \in Int
    BY <1>1 DEF InputOK
  <1>6. CASE i < event.end /\ event' = event /\ events' = events /\ NRead' = NRead
    BY <1>1, <1>2, <1>4, <1>5, <1>6 DEF LineInHand
  <1>7. CASE /\ ~(i < event.end) /\ events = << >> /\ events' = events /\ NRead' = NRead
             /\ event'.start = 0 /\ event'.end = 0
    BY <1>1, <1>2, <1>4, <1>5, <1>7 DEF LineInHand
  <1>8. CASE /\ ~(i < event.end) /\ events # << >> /\ NRead' = NRead + 1
             /\ event' = Line(NRead + 1) /\ NRead + 1 <= NLines
    <2>1. NRead > 0 => Line(NRead).end = i
      BY <1>1, <1>4, <1>5, <1>8 DEF LineInHand
    <2>2. NRead = 0 => i = 0
      BY <1>1, <1>8 DEF LineInHand
    <2>3. \A k \in 1..NRead : Line(k).end <= i
      BY <1>1, <1>4, <2>1 DEF LineInHand
    <2>4. i' <= event'.end
      BY <1>1, <1>3, <1>4, <1>8, <2>1, <2>2
    <2>5. (event = Line(NRead))'
      BY <1>2, <1>8 DEF Line, Generate
    <2> QED
      BY <1>1, <1>2, <1>8, <2>3, <2>4, <2>5, <1>4 DEF LineInHand
  <1> QED
    BY <1>4, <1>6, <1>7, <1>8

\* The event in hand is the first line that is not over, or empty.
LEMMA InHandIs ==
    ASSUME GeneratorInvariant, Proper
    PROVE  \/ \E n \in 1..NLines : /\ Current = Line(n) /\ i < Line(n).end
                                   /\ \A k \in 1..(n - 1) : Line(k).end <= i
           \/ /\ Current.start = 0 /\ Current.end = 0
              /\ \A k \in 1..NLines : Line(k).end <= i
  <1>1. /\ InputOK /\ LineInHand
        /\ NLines \in Nat /\ NRead \in 0..NLines /\ Len(events) \in Nat
        /\ DOMAIN given.events = 1..NLines
        /\ \A k \in 1..NLines : Line(k).start \in Int /\ Line(k).end \in Int
    BY LinesAre DEF GeneratorInvariant
  <1>2. \A k \in 1..NLines : /\ 0 <= Line(k).start /\ Line(k).start < Line(k).end
                             /\ \A j \in 1..(k - 1) : Line(j).end <= Line(k).start
    BY <1>1 DEF Proper, Line
  <1>3. event.end \in Int /\ i \in Nat
    BY <1>1 DEF InputOK, i
  <1>4. CASE i < event.end
    <2>1. Current = event /\ event = Line(NRead) /\ NRead \in 1..NLines
      BY <1>1, <1>3, <1>4 DEF Current, LineInHand
    <2> QED
      BY <1>1, <1>4, <2>1 DEF LineInHand
  <1>5. CASE ~(i < event.end) /\ events = << >>
    <2>1. Current.start = 0 /\ Current.end = 0
      BY <1>5 DEF Current, Event
    <2>2. NRead = NLines
      BY <1>1, <1>5, EmptySeq DEF NRead
    <2>3. \A k \in 1..NLines : Line(k).end <= i
      BY <1>1, <1>3, <1>5, <2>2 DEF LineInHand
    <2> QED
      BY <2>1, <2>3
  <1>6. CASE ~(i < event.end) /\ events # << >>
    <2>1. Len(events) >= 1 /\ Head(events) = events[1]
      BY <1>1, <1>6 DEF InputOK
    <2>2. NRead + 1 <= NLines /\ Current = Line(NRead + 1)
      BY <1>1, <1>6, <2>1 DEF Current, InputOK, NRead
    <2>3. NRead > 0 => Line(NRead).end = i
      BY <1>1, <1>3, <1>6 DEF LineInHand
    <2>4. NRead = 0 => i = 0
      BY <1>1, <1>6 DEF LineInHand
    <2>5. \A k \in 1..NRead : Line(k).end <= i
      BY <1>1, <1>3, <2>3 DEF LineInHand
    <2>6. i < Line(NRead + 1).end
      BY <1>1, <1>2, <1>3, <2>2, <2>3, <2>4
    <2> QED
      BY <1>1, <2>2, <2>5, <2>6
  <1> QED
    BY <1>4, <1>5, <1>6

\* So it has the tone of the next sample, and is not refused.
LEMMA SampleIs ==
    ASSUME GeneratorInvariant, Proper
    PROVE  /\ ~Refused(Current)
           /\ (IF Sounds(Current) THEN Current.symbol ELSE Silence) = ToneAt(i)
  <1>1. /\ InputOK /\ NLines \in Nat
        /\ DOMAIN given.events = 1..NLines
        /\ \A k \in 1..NLines : Line(k).start \in Int /\ Line(k).end \in Int
    BY LinesAre DEF GeneratorInvariant
  <1>2. \A k \in 1..NLines : /\ 0 <= Line(k).start /\ Line(k).start < Line(k).end
                             /\ Line(k).symbol \in Symbols
                             /\ \A j \in 1..(k - 1) : Line(j).end <= Line(k).start
    BY <1>1 DEF Proper, Line
  <1>3. i \in Nat
    BY <1>1 DEF InputOK, i
  <1>4. ASSUME NEW n \in 1..NLines, Current = Line(n), i < Line(n).end,
               \A k \in 1..(n - 1) : Line(k).end <= i
        PROVE  /\ ~Refused(Current)
               /\ (IF Sounds(Current) THEN Current.symbol ELSE Silence) = ToneAt(i)
    <2>1. ~Refused(Current)
      BY <1>1, <1>2, <1>4 DEF Refused
    <2>2. CASE Sounds(Current)
      BY <1>1, <1>3, <1>4, <2>1, <2>2, ToneIs DEF Sounds
    <2>3. CASE ~Sounds(Current)
      <3>1. i < Line(n).start
        BY <1>1, <1>3, <1>4, <2>3 DEF Sounds
      <3>2. ASSUME NEW k \in 1..NLines PROVE ~(Line(k).start <= i /\ i < Line(k).end)
        <4>1. CASE k < n
          BY <1>1, <1>3, <1>4, <4>1
        <4>2. CASE k >= n
          BY <1>1, <1>2, <1>3, <3>1, <4>2
        <4> QED
          BY <4>1, <4>2
      <3> QED
        BY <1>1, <1>3, <2>1, <2>3, <3>2, NoTone
    <2> QED
      BY <2>1, <2>2, <2>3
  <1>5. CASE /\ Current.start = 0 /\ Current.end = 0
             /\ \A k \in 1..NLines : Line(k).end <= i
    <2>1. ~Sounds(Current) /\ ~Refused(Current)
      BY <1>3, <1>5 DEF Sounds, Refused
    <2>2. ToneAt(i) = Silence
      BY <1>1, <1>3, <1>5, NoTone
    <2> QED
      BY <2>1, <2>2
  <1> QED
    BY <1>4, <1>5, InHandIs

\* GeneratorInvariant is inductive.
LEMMA GeneratorNext == GeneratorInvariant /\ [Next]_vars => GeneratorInvariant'
  <1> SUFFICES ASSUME GeneratorInvariant, [Next]_vars PROVE GeneratorInvariant'
    OBVIOUS
  <1>1. InputOK
    BY DEF GeneratorInvariant
  <1>2. given' = given /\ Proper' = Proper /\ \A k : ToneAt(k)' = ToneAt(k)
    BY DEF Next, vars, Generate, GenerateFails, Generated, Block, LastBlock, Finished, Proper, ToneAt
  <1>3. CASE Generate
    <2>1. InputOK'
      BY <1>3, CurrentIs
    <2>2. ASSUME Proper PROVE LineInHand' /\ Synthesized'
      <3>1. audio' = Append(audio, ToneAt(i)) /\ pc' # "failed"
        BY <1>3, <2>2, SampleIs DEF Generate
      <3>2. audio \in Seq(Symbols \cup {Silence}) /\ i \in Nat
        BY <1>1 DEF InputOK, i
      <3>3. ASSUME NEW k \in 1..Len(audio') PROVE audio'[k] = ToneAt(k - 1)
        <4>1. /\ Len(audio') = Len(audio) + 1 /\ audio'[Len(audio) + 1] = ToneAt(i)
              /\ \A j \in 1..Len(audio) : audio'[j] = audio[j]
          BY <3>1, <3>2
        <4>2. CASE k = Len(audio) + 1
          BY <3>2, <4>1, <4>2 DEF i
        <4>3. CASE k \in 1..Len(audio)
          BY <2>2, <4>1, <4>3 DEF GeneratorInvariant, Synthesized
        <4> QED
          BY <3>2, <4>1, <4>2, <4>3 DEF i
      <3>4. Synthesized'
        BY <1>2, <3>1, <3>3 DEF Synthesized
      <3> QED
        BY <1>3, <2>2, <3>4, LineInHandStep
    <2> QED
      BY <1>2, <2>1, <2>2 DEF GeneratorInvariant
  <1>4. CASE GenerateFails
    <2>1. ~Proper
      BY <1>4, SampleIs DEF GenerateFails
    <2>2. InputOK'
      BY <1>1, <1>4 DEF GenerateFails, InputOK, NRead, NLines, Lines, Line
    <2> QED
      BY <1>2, <2>1, <2>2 DEF GeneratorInvariant
  <1>5. CASE Generated \/ Block \/ LastBlock \/ Finished \/ UNCHANGED vars
    <2>1. /\ UNCHANGED <<given, events, event, audio>>
          /\ pc' = pc \/ (pc' \in {"detect", "done"} /\ Len(audio) = Length)
      BY <1>1, <1>5 DEF Generated, Block, LastBlock, Finished, vars, i, InputOK
    <2>2. InputOK'
      BY <1>1, <2>1 DEF InputOK, NRead, NLines, Lines, Line
    <2>3. ASSUME Proper PROVE LineInHand' /\ Synthesized'
      <3>1. LineInHand'
        BY <2>1, <2>3 DEF GeneratorInvariant, LineInHand, NRead, NLines, Line, i
      <3>2. Synthesized'
        BY <1>2, <2>1, <2>3 DEF GeneratorInvariant, Synthesized
      <3> QED
        BY <3>1, <3>2
    <2> QED
      BY <1>2, <2>2, <2>3 DEF GeneratorInvariant
  <1> QED
    BY <1>3, <1>4, <1>5 DEF Next

\* The invariant of the generator holds always.
LEMMA GeneratorHolds == Spec => []GeneratorInvariant
  BY GeneratorInit, GeneratorNext, PTL DEF Spec

\* Synthesized: reading one event at a time (dtmf_generate) loses none, refuses
\* none, and gives every sample the tone of its event, whatever the
\* uninitialised start and symbol hold.
THEOREM EveryEventIsHeard == Spec => []Synthesized
  <1>1. GeneratorInvariant => Synthesized
    BY DEF GeneratorInvariant, Synthesized
  <1> QED
    BY <1>1, GeneratorHolds, PTL
-------------------------------------------------------------------------------
\* Nothing is found before the first sample.
LEMMA DetectorInit == Init => DetectorInvariant
  <1> SUFFICES ASSUME Init PROVE DetectorInvariant
    OBVIOUS
  <1>1. index = 0 /\ found = << >> /\ pc = "generate" /\ Len(found) = 0 /\ found \in Seq(Reports)
    BY EmptySeq DEF Init
  <1>2. Length \in Nat /\ BlockSize \in Nat \ {0}
    BY DtmfAssumption
  <1>3. ASSUME Proper, NEW k \in 1..NLines, NEW p \in Int, Stretch(k, p)
        PROVE  index < p + BlockSize
    <2>1. InputOK
      BY GeneratorInit DEF GeneratorInvariant
    <2>2. k \in DOMAIN given.events /\ Line(k).start \in Int /\ Line(k).end \in Int
      BY <2>1, LinesAre
    <2>3. 0 <= Line(k).start
      BY <1>3, <2>2 DEF Proper, Line
    <2>4. Line(k).start <= p
      BY <1>2, <1>3, <2>2 DEF Stretch
    <2> QED
      BY <1>1, <1>2, <2>2, <2>3, <2>4
  <1> QED
    BY <1>1, <1>2, <1>3 DEF DetectorInvariant

\* A tone is reported at the end, or there was none.
LEMMA ReportIs ==
    ASSUME found \in Seq(Reports), index \in Int, NEW end \in Int,
           NEW s \in Symbols \cup {Silence}, Report(end, s)
    PROVE  /\ found' \in Seq(Reports)
           /\ \/ s = Silence /\ found' = found
              \/ /\ s \in Symbols /\ Len(found') = Len(found) + 1
                 /\ \A m \in 1..Len(found) : found'[m] = found[m]
                 /\ found'[Len(found) + 1].start = index
                 /\ found'[Len(found) + 1].end = end
                 /\ found'[Len(found) + 1].symbol = s
  <1>1. CASE s = Silence
    BY <1>1 DEF Report
  <1>2. CASE s # Silence
    <2>1. Event(index, end, s) \in Reports /\ s \in Symbols
      BY <1>2 DEF Reports, Event
    <2>2. found' = Append(found, Event(index, end, s))
      BY <1>2 DEF Report
    <2> HIDE DEF Reports
    <2> QED
      BY <2>1, <2>2, AppendProperties DEF Event
  <1> QED
    BY <1>1, <1>2

\* A sound among the samples of a block is of an event that the block, and what
\* is reported of it, overlaps.
LEMMA SoundTouchesEvent ==
    ASSUME GeneratorInvariant, Proper, index \in Nat, NEW n \in Nat, NEW end \in Int,
           index + n <= Len(audio), index + n <= end,
           ~(Samples(n) \subseteq {Silence}),
           NEW f, f.start = index, f.end = end
    PROVE  TouchesEvent(f)
  <1>1. PICK k \in (index + 1)..(index + n) : audio[k] # Silence
    BY DEF Samples
  <1>2. InputOK /\ Len(audio) \in Nat
    BY DEF GeneratorInvariant, InputOK
  <1>3. audio[k] = ToneAt(k - 1) /\ k - 1 \in Int
    BY <1>1, <1>2 DEF GeneratorInvariant, Synthesized
  <1>4. PICK m \in 1..NLines : Line(m).start <= k - 1 /\ k - 1 < Line(m).end
    BY <1>1, <1>2, <1>3, ToneIsOf
  <1>5. Line(m).start \in Int /\ Line(m).end \in Int /\ m \in DOMAIN given.events
    BY <1>2, <1>4, LinesAre
  <1>6. Line(m).start < end /\ index < Line(m).end
    BY <1>1, <1>4, <1>5
  <1> QED
    BY <1>5, <1>6 DEF TouchesEvent, Overlap, Line

\* What is heard is a key or silence, and no key in silence.
LEMMA HeardIs ==
    ASSUME NEW samples, NEW s \in Heard(samples)
    PROVE  s \in Symbols \cup {Silence} /\ (s # Silence => ~(samples \subseteq {Silence}))
  BY DEF Heard

\* The same of the tones of a full block.
LEMMA TonesAre ==
    ASSUME GeneratorInvariant, index \in Nat, index + BlockSize <= Len(audio),
           NEW s \in Tones(Samples(BlockSize))
    PROVE  /\ s \in Symbols \cup {Silence}
           /\ s # Silence => ~(Samples(BlockSize) \subseteq {Silence})
  <1>1. audio \in Seq(Symbols \cup {Silence}) /\ BlockSize \in Nat
    BY DtmfAssumption DEF GeneratorInvariant, InputOK
  <1>2. Samples(BlockSize) \subseteq Symbols \cup {Silence}
    BY <1>1 DEF Samples
  <1> QED
    BY <1>2, HeardIs DEF Tones

\* A block inside of an event has its tone, if blocks are long enough.
LEMMA BlockOfOneTone ==
    ASSUME GeneratorInvariant, Proper, given.clear, index \in Nat, NEW n \in 1..NLines,
           Line(n).start <= index, index + BlockSize <= Line(n).end,
           index + BlockSize <= Len(audio)
    PROVE  Tones(Samples(BlockSize)) = {Line(n).symbol}
  <1>1. InputOK /\ Len(audio) \in Nat /\ BlockSize \in Nat \ {0}
    BY DtmfAssumption DEF GeneratorInvariant, InputOK
  <1>2. Line(n).start \in Int /\ Line(n).end \in Int
    BY <1>1, LinesAre
  <1>3. ASSUME NEW k \in (index + 1)..(index + BlockSize) PROVE audio[k] = Line(n).symbol
    <2>1. audio[k] = ToneAt(k - 1) /\ k - 1 \in Int
      BY <1>1, <1>3 DEF GeneratorInvariant, Synthesized
    <2>2. Line(n).start <= k - 1 /\ k - 1 < Line(n).end
      BY <1>1, <1>2, <1>3
    <2> QED
      BY <1>1, <2>1, <2>2, ToneIs
  <1>4. index + 1 \in (index + 1)..(index + BlockSize)
    BY <1>1
  <1>5. Samples(BlockSize) = {Line(n).symbol}
    BY <1>3, <1>4 DEF Samples
  <1> QED
    BY <1>5, FS_Singleton DEF Tones

\* What is found, after a block of n samples in which s was found.
KeyOfBlock(s, end) ==
    \A k \in DOMAIN given.events :
       given.events[k].start <= index /\ end <= given.events[k].end
           => s = given.events[k].symbol

LEMMA BlockStep ==
    ASSUME GeneratorInvariant, DetectorInvariant, pc = "detect",
           NEW n \in Nat, NEW end \in Int, NEW s \in Symbols \cup {Silence},
           index + n <= Length, index + n <= end, end - index <= BlockSize,
           s # Silence => ~(Samples(n) \subseteq {Silence}),
           Proper /\ given.clear /\ s # Silence => KeyOfBlock(s, end),
           Report(end, s), given' = given
    PROVE  /\ found' \in Seq(Reports)
           /\ \A m \in 1..Len(found') : m > 1 => found'[m - 1].end <= found'[m].start
           /\ \A m \in 1..Len(found') : found'[m].end - found'[m].start <= BlockSize
           /\ \A m \in 1..Len(found') :
                 found'[m].end <= index \/ (m = Len(found') /\ found'[m].end = end)
           /\ Proper => \A m \in 1..Len(found') : TouchesEvent(found'[m])
           /\ Proper /\ given.clear => \A m \in 1..Len(found') : HasKey(found'[m])
           /\ \A k : \A p : IsFound(k, p) => IsFound(k, p)'
           /\ s # Silence => \E m \in DOMAIN found' : /\ found'[m].symbol = s
                                /\ found'[m].start = index /\ found'[m].end = end
  <1>1. /\ index \in Nat /\ found \in Seq(Reports) /\ index <= Length /\ Len(audio) = Length
        /\ \A m \in 1..Len(found) : m > 1 => found[m - 1].end <= found[m].start
        /\ \A m \in 1..Len(found) : found[m].end - found[m].start <= BlockSize
        /\ \A m \in 1..Len(found) : found[m].end <= index
        /\ Proper => \A m \in 1..Len(found) : TouchesEvent(found[m])
        /\ Proper /\ given.clear => \A m \in 1..Len(found) : HasKey(found[m])
    BY DEF GeneratorInvariant, InputOK, DetectorInvariant
  <1>3. /\ found' \in Seq(Reports)
        /\ \/ s = Silence /\ found' = found
           \/ /\ s \in Symbols /\ Len(found') = Len(found) + 1
              /\ \A m \in 1..Len(found) : found'[m] = found[m]
              /\ found'[Len(found) + 1].start = index
              /\ found'[Len(found) + 1].end = end
              /\ found'[Len(found) + 1].symbol = s
    BY <1>1, ReportIs
  <1>4. CASE s = Silence
    <2>1. found' = found
      BY <1>3, <1>4, DtmfAssumption
    <2> QED
      BY <1>1, <1>3, <1>4, <2>1 DEF IsFound, Line
  <1>5. CASE s # Silence
    <2>1. /\ Len(found') = Len(found) + 1 /\ Len(found) \in Nat
          /\ DOMAIN found = 1..Len(found) /\ DOMAIN found' = 1..(Len(found) + 1)
          /\ \A m \in 1..Len(found) : found'[m] = found[m]
          /\ found'[Len(found) + 1].start = index
          /\ found'[Len(found) + 1].end = end
          /\ found'[Len(found) + 1].symbol = s
      BY <1>1, <1>3, <1>5
    <2>2. ASSUME NEW m \in 1..Len(found'), m > 1 PROVE found'[m - 1].end <= found'[m].start
      BY <1>1, <2>1, <2>2
    <2>3. Proper => TouchesEvent(found'[Len(found) + 1])
      BY <1>1, <1>5, <2>1, SoundTouchesEvent
    <2>4. Proper => \A m \in 1..Len(found') : TouchesEvent(found'[m])
      BY <1>1, <2>1, <2>3
    <2>5. ASSUME NEW k, NEW p, IsFound(k, p) PROVE IsFound(k, p)'
      BY <2>1, <2>5 DEF IsFound, Line
    <2>6. ASSUME NEW m \in 1..Len(found')
          PROVE  found'[m].end <= index \/ (m = Len(found') /\ found'[m].end = end)
      BY <1>1, <2>1
    <2>7. \E m \in DOMAIN found' : /\ found'[m].symbol = s
                                   /\ found'[m].start = index /\ found'[m].end = end
      BY <2>1
    <2>8. ASSUME NEW m \in 1..Len(found')
          PROVE  found'[m].end - found'[m].start <= BlockSize
      BY <1>1, <2>1
    <2>9. Proper /\ given.clear => HasKey(found'[Len(found) + 1])
      BY <1>5, <2>1 DEF HasKey, KeyOfBlock, Inside
    <2>10. Proper /\ given.clear => \A m \in 1..Len(found') : HasKey(found'[m])
      BY <1>1, <2>1, <2>9
    <2> QED
      BY <1>3, <2>2, <2>4, <2>5, <2>6, <2>7, <2>8, <2>10
  <1> QED
    BY <1>4, <1>5

\* A full block, and what is found in it.
LEMMA BlockIs ==
    ASSUME GeneratorInvariant, DetectorInvariant, Block
    PROVE  /\ pc = "detect" /\ pc' = "detect" /\ index \in Nat /\ Len(audio) = Length
           /\ Length \in Nat /\ BlockSize \in Nat \ {0} /\ index + BlockSize <= Len(audio)
           /\ index' = index + BlockSize /\ given' = given /\ InputOK
           /\ \E s \in Symbols \cup {Silence} :
                 /\ Report(index + BlockSize, s)
                 /\ s # Silence => ~(Samples(BlockSize) \subseteq {Silence})
                 /\ Proper /\ given.clear => KeyOfBlock(s, index + BlockSize)
  <1>1. /\ pc = "detect" /\ pc' = "detect" /\ index \in Nat /\ Len(audio) = Length
        /\ Length \in Nat /\ BlockSize \in Nat \ {0} /\ index + BlockSize <= Len(audio)
        /\ index' = index + BlockSize /\ given' = given /\ InputOK
    BY DtmfAssumption DEF GeneratorInvariant, InputOK, DetectorInvariant, Block
  <1>2. PICK s \in Tones(Samples(BlockSize)) : Report(index + BlockSize, s)
    BY DEF Block
  <1>3. /\ s \in Symbols \cup {Silence}
        /\ s # Silence => ~(Samples(BlockSize) \subseteq {Silence})
    BY <1>1, TonesAre
  <1>4. ASSUME Proper, given.clear, NEW k \in DOMAIN given.events,
               given.events[k].start <= index, index + BlockSize <= given.events[k].end
        PROVE  s = given.events[k].symbol
    <2>1. k \in 1..NLines /\ Line(k) = given.events[k]
      BY <1>1, LinesAre DEF Line
    <2>2. Line(k).start <= index /\ index + BlockSize <= Line(k).end
      BY <1>4, <2>1
    <2>3. Tones(Samples(BlockSize)) = {Line(k).symbol}
      BY <1>1, <1>4, <2>1, <2>2, BlockOfOneTone
    <2> QED
      BY <2>1, <2>3
  <1>5. Proper /\ given.clear => KeyOfBlock(s, index + BlockSize)
    BY <1>4 DEF KeyOfBlock
  <1> QED
    BY <1>1, <1>2, <1>3, <1>5

\* A stretch of two blocks of an event holds a block before the detector is a
\* block behind its start.
LEMMA StretchStep ==
    ASSUME GeneratorInvariant, DetectorInvariant, Proper, given.clear, Block,
           NEW k \in 1..NLines, NEW p \in Int, Stretch(k, p)
    PROVE  IsFound(k, p)' \/ index' < p + BlockSize
  <1>1. /\ pc = "detect" /\ index \in Nat /\ Len(audio) = Length
        /\ Length \in Nat /\ BlockSize \in Nat \ {0} /\ index + BlockSize <= Len(audio)
        /\ index' = index + BlockSize /\ given' = given /\ InputOK
    BY BlockIs
  <1>2. PICK s \in Symbols \cup {Silence} :
           /\ Report(index + BlockSize, s)
           /\ s # Silence => ~(Samples(BlockSize) \subseteq {Silence})
           /\ Proper /\ given.clear => KeyOfBlock(s, index + BlockSize)
    BY BlockIs
  <1>3. Line(k).start \in Int /\ Line(k).end \in Int /\ k \in DOMAIN given.events
    BY <1>1, LinesAre
  <1>4. /\ BlockSize \in Nat /\ index + BlockSize \in Int /\ index + BlockSize <= Length
        /\ index + BlockSize <= index + BlockSize
        /\ (index + BlockSize) - index <= BlockSize
    BY <1>1
  <1>5. /\ \A j : \A q : IsFound(j, q) => IsFound(j, q)'
        /\ s # Silence => \E m \in DOMAIN found' : /\ found'[m].symbol = s
              /\ found'[m].start = index /\ found'[m].end = index + BlockSize
    BY <1>1, <1>2, <1>4, BlockStep
  <1>6. CASE IsFound(k, p)
    BY <1>5, <1>6
  <1>7. CASE index < p + BlockSize /\ ~(index' < p + BlockSize)
    <2>1. Line(k).start <= p /\ p <= Line(k).end - 2 * BlockSize + 1
      BY <1>1, <1>3 DEF Stretch
    <2>2. p <= index /\ index <= p + BlockSize - 1
      BY <1>1, <1>7
    <2>3. Line(k).start <= index /\ index + BlockSize <= Line(k).end
      BY <1>1, <1>3, <2>1, <2>2
    <2>4. s = Line(k).symbol
      BY <1>2, <1>3, <2>3 DEF KeyOfBlock, Line
    <2>5. s # Silence
      BY <1>3, <2>4, DtmfAssumption DEF Proper, Line
    <2>6. PICK m \in DOMAIN found' : /\ found'[m].symbol = s
              /\ found'[m].start = index /\ found'[m].end = index + BlockSize
      BY <1>5, <2>5
    <2>7. found'[m].start \in p..(p + BlockSize - 1)
      BY <1>1, <2>2, <2>6
    <2>8. Line(k)' = Line(k)
      BY <1>1 DEF Line
    <2> QED
      BY <2>3, <2>4, <2>6, <2>7, <2>8 DEF IsFound
  <1> QED
    BY <1>1, <1>6, <1>7 DEF DetectorInvariant

\* The operators on events mean the same after a step that keeps given.
LEMMA GivenStays ==
    ASSUME given' = given
    PROVE  /\ Proper' = Proper /\ NLines' = NLines /\ Reports' = Reports
           /\ given.clear' = given.clear
           /\ \A k : Line(k)' = Line(k)
           /\ \A k : \A p : Stretch(k, p)' = Stretch(k, p)
           /\ \A f : TouchesEvent(f)' = TouchesEvent(f)
           /\ \A f : HasKey(f)' = HasKey(f)
  BY DEF Proper, NLines, Reports, Line, Stretch, TouchesEvent, HasKey, Overlap, Inside

\* A block of the detector.
LEMMA BlockPreserves ==
    ASSUME GeneratorInvariant, DetectorInvariant, Block
    PROVE  DetectorInvariant'
  <1>1. /\ pc = "detect" /\ pc' = "detect" /\ index \in Nat /\ Len(audio) = Length
        /\ Length \in Nat /\ BlockSize \in Nat \ {0} /\ index + BlockSize <= Len(audio)
        /\ index' = index + BlockSize /\ given' = given /\ InputOK
    BY BlockIs
  <1>2. PICK s \in Symbols \cup {Silence} :
           /\ Report(index + BlockSize, s)
           /\ s # Silence => ~(Samples(BlockSize) \subseteq {Silence})
           /\ Proper /\ given.clear => KeyOfBlock(s, index + BlockSize)
    BY BlockIs
  <1>3. /\ BlockSize \in Nat /\ index + BlockSize \in Int /\ index + BlockSize <= Length
        /\ index + BlockSize <= index + BlockSize
        /\ (index + BlockSize) - index <= BlockSize
    BY <1>1
  <1>4. /\ found' \in Seq(Reports)
        /\ \A m \in 1..Len(found') : m > 1 => found'[m - 1].end <= found'[m].start
        /\ \A m \in 1..Len(found') : found'[m].end - found'[m].start <= BlockSize
        /\ \A m \in 1..Len(found') :
              found'[m].end <= index \/ (m = Len(found') /\ found'[m].end = index + BlockSize)
        /\ Proper => \A m \in 1..Len(found') : TouchesEvent(found'[m])
        /\ Proper /\ given.clear => \A m \in 1..Len(found') : HasKey(found'[m])
    BY <1>1, <1>2, <1>3, BlockStep
  <1>5. ASSUME NEW m \in 1..Len(found') PROVE found'[m].end \in Int
    <2>1. found'[m] \in Reports
      BY <1>4, ElementOfSeq
    <2> QED
      BY <2>1 DEF Reports
  <1>6. \A m \in 1..Len(found') : found'[m].end <= index'
    BY <1>1, <1>4, <1>5
  <1>7. Proper /\ given.clear => \A k \in 1..NLines : \A p \in Int : Stretch(k, p) =>
           IsFound(k, p)' \/ index' < p + BlockSize
    BY StretchStep
  <1>8. index' \in Nat /\ index' <= Length /\ pc' # "done"
    BY <1>1
  <1> QED
    BY <1>1, <1>4, <1>6, <1>7, <1>8, GivenStays DEF DetectorInvariant

\* The last, short block: by then every stretch of two blocks has one found.
LEMMA LastBlockPreserves ==
    ASSUME GeneratorInvariant, DetectorInvariant, LastBlock
    PROVE  DetectorInvariant'
  <1>1. /\ pc = "detect" /\ index \in Nat /\ Len(audio) = Length /\ Length \in Nat
        /\ BlockSize \in Nat \ {0} /\ index + BlockSize > Length /\ index <= Length
        /\ index' = Length + 1 /\ given' = given /\ pc' = "done"
        /\ InputOK
    BY DtmfAssumption DEF GeneratorInvariant, InputOK, DetectorInvariant, LastBlock
  <1>2. PICK n \in Nat : n = Length - index
    BY <1>1
  <1>3. PICK s \in Heard(Samples(n)) : Report(Length + 1, s)
    BY <1>1, <1>2 DEF LastBlock
  <1>4. s \in Symbols \cup {Silence} /\ (s # Silence => ~(Samples(n) \subseteq {Silence}))
    BY HeardIs
  <1>5. /\ index + n <= Length /\ index + n <= Length + 1 /\ Length + 1 \in Int
        /\ (Length + 1) - index <= BlockSize
    BY <1>1, <1>2
  <1>6. ASSUME Proper PROVE KeyOfBlock(s, Length + 1)
    <2>1. \A k \in DOMAIN given.events : given.events[k].end <= Length /\ given.events[k].end \in Int
      BY <1>1, <1>6, LinesAre DEF Proper, Line
    <2> QED
      BY <1>1, <2>1 DEF KeyOfBlock
  <1>7. /\ found' \in Seq(Reports)
        /\ \A m \in 1..Len(found') : m > 1 => found'[m - 1].end <= found'[m].start
        /\ \A m \in 1..Len(found') : found'[m].end - found'[m].start <= BlockSize
        /\ \A m \in 1..Len(found') :
              found'[m].end <= index \/ (m = Len(found') /\ found'[m].end = Length + 1)
        /\ Proper => \A m \in 1..Len(found') : TouchesEvent(found'[m])
        /\ Proper /\ given.clear => \A m \in 1..Len(found') : HasKey(found'[m])
        /\ \A k : \A p : IsFound(k, p) => IsFound(k, p)'
    BY <1>1, <1>3, <1>4, <1>5, <1>6, BlockStep
  <1>8. ASSUME NEW m \in 1..Len(found') PROVE found'[m].end \in Int
    <2>1. found'[m] \in Reports
      BY <1>7, ElementOfSeq
    <2> QED
      BY <2>1 DEF Reports
  <1>9. \A m \in 1..Len(found') : found'[m].end <= Length + (IF m = Len(found') THEN 1 ELSE 0)
    BY <1>1, <1>7, <1>8
  <1>10. ASSUME Proper, given.clear, NEW k \in 1..NLines, NEW p \in Int, Stretch(k, p)
         PROVE  IsFound(k, p)'
    <2>1. Line(k).start \in Int /\ Line(k).end \in Int /\ k \in DOMAIN given.events
      BY <1>1, LinesAre
    <2>2. Line(k).end <= Length
      BY <1>10, <2>1 DEF Proper, Line
    <2>3. p <= Line(k).end - 2 * BlockSize + 1
      BY <1>1, <1>10, <2>1 DEF Stretch
    <2>4. ~(index < p + BlockSize)
      BY <1>1, <2>1, <2>2, <2>3
    <2>5. IsFound(k, p)
      BY <1>10, <2>4 DEF DetectorInvariant
    <2> QED
      BY <1>7, <2>5
  <1>11. index' \in Nat /\ pc' = "done"
    BY <1>1
  <1> QED
    BY <1>1, <1>7, <1>9, <1>10, <1>11, GivenStays DEF DetectorInvariant

\* DetectorInvariant is inductive, given that of the generator.
LEMMA DetectorNext == GeneratorInvariant /\ DetectorInvariant /\ [Next]_vars => DetectorInvariant'
  <1> SUFFICES ASSUME GeneratorInvariant, DetectorInvariant, [Next]_vars
               PROVE  DetectorInvariant'
    OBVIOUS
  <1>1. CASE Generate \/ GenerateFails \/ Generated \/ Finished \/ UNCHANGED vars
    <2>1. UNCHANGED <<index, found, given>> /\ (pc' = "done" <=> pc = "done")
      BY <1>1 DEF Generate, GenerateFails, Generated, Finished, vars
    <2>2. \A k : \A p : IsFound(k, p)' <=> IsFound(k, p)
      <3>1. found' = found /\ \A k : Line(k)' = Line(k)
        BY <2>1 DEF Line
      <3> QED
        BY <3>1, Zenon DEF IsFound
    <2> QED
      BY <2>1, <2>2, GivenStays DEF DetectorInvariant
  <1> QED
    BY <1>1, BlockPreserves, LastBlockPreserves DEF Next

\* RoundTrip: where blocks are long enough for the thresholds, dtmf_detect finds
\* the key of every stretch of an event, wherever its blocks fall and whatever
\* the filters make of blocks with two tones or a gap in them; each line it
\* writes overlaps an event, is a block long at most, and behind the last line.
THEOREM EventsAreFound == Spec => []RoundTrip
  <1>1. Spec => []DetectorInvariant
    BY DetectorInit, DetectorNext, GeneratorHolds, PTL DEF Spec
  <1>2. GeneratorInvariant /\ DetectorInvariant => RoundTrip
    <2> SUFFICES ASSUME GeneratorInvariant, DetectorInvariant, Proper, pc = "done"
                 PROVE  RoundTrip
      BY DEF RoundTrip
    <2>1. /\ DOMAIN given.events = 1..NLines /\ DOMAIN found = 1..Len(found)
          /\ \A k \in 1..NLines : Line(k).start \in Int /\ Line(k).end \in Int
          /\ BlockSize \in Nat
      BY LinesAre, DtmfAssumption DEF GeneratorInvariant, DetectorInvariant
    <2>2. ASSUME given.clear, NEW k \in 1..NLines,
                 NEW p \in Line(k).start..(Line(k).end - 2 * BlockSize + 1)
          PROVE  IsFound(k, p)
      <3>1. p \in Int /\ Stretch(k, p)
        BY <2>1 DEF Stretch
      <3> QED
        BY <2>2, <3>1 DEF DetectorInvariant
    <2>3. given.clear => \A m \in 1..Len(found) : HasKey(found[m])
      BY DEF DetectorInvariant
    <2>4. \A m \in 1..Len(found) : TouchesEvent(found[m])
      BY DEF DetectorInvariant
    <2>5. given.clear =>
           \A k \in DOMAIN given.events :
             LET e == given.events[k]
             IN  /\ \A p \in e.start..(e.end - 2 * BlockSize + 1) :
                      \E m \in DOMAIN found : /\ found[m].symbol = e.symbol
                                              /\ found[m].start \in p..(p + BlockSize - 1)
                                              /\ found[m].end <= e.end
                 /\ \A m \in DOMAIN found : Inside(found[m], e) => found[m].symbol = e.symbol
      BY <2>1, <2>2, <2>3 DEF IsFound, HasKey, Line
    <2> QED
      BY <2>1, <2>4, <2>5 DEF RoundTrip, DetectorInvariant, TouchesEvent
  <1> QED
    BY <1>1, <1>2, GeneratorHolds, PTL
===============================================================================

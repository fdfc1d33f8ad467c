------------------------------- MODULE Recorder -------------------------------
(***************************************************************************)
(* The recorder of the receive audio (internal/audio/recorder.go): a ring  *)
(* that always holds the last of what was received, a file it writes while *)
(* recording, and the requests of /api/record that start, stop and toggle  *)
(* it.  Every method takes the recorder's mutex, so each is one step; the  *)
(* toggle asks and acts in two.                                            *)
(*                                                                         *)
(* What is received is counted in units, numbered from 1 in the order they *)
(* were fed; a chunk is several.  A file is what it holds, the bytes the   *)
(* recorder counted, and the length its WAV header claims.  The disk may   *)
(* refuse any write, of samples, which stops the recording, or of the      *)
(* header, whose error nobody looks at.                                    *)
(***************************************************************************)
EXTENDS Integers, Sequences, FiniteSetsExt

CONSTANTS
    Callers,     \* requests to /api/record/*
    RingMax,     \* units in the replay ring
    MaxBytes,    \* units after which a recording stops
    MaxHeard     \* bound: units received

ASSUME RecorderAssumption ==
    /\ RingMax \in Nat \ {0} /\ MaxBytes \in Nat \ {0} /\ MaxHeard \in Nat

VARIABLES
    heard,       \* units fed so far (history)
    ring, at, full,
    file,        \* the open file, or the last one closed; whole, if its last writes
                 \* were taken, of samples and of the header (history)
    saw          \* what each caller's toggle read of Recording()

ringVars == <<heard, ring, at, full>>
recVars == <<ringVars, file, saw>>

Units == 0..MaxHeard
Files ==
    [open : BOOLEAN, from : Units, data : Seq(Units), bytes : Units, header : Units,
     whole : BOOLEAN]
NoFile ==
    [open |-> FALSE, from |-> 0, data |-> <<>>, bytes |-> 0, header |-> 0, whole |-> TRUE]
NewFile == [NoFile EXCEPT !.open = TRUE, !.from = heard]

RecorderTypeOK ==
    /\ heard \in Units
    /\ ring \in [0..(RingMax - 1) -> Units] /\ at \in 0..(RingMax - 1)
    /\ full \in BOOLEAN
    /\ file \in Files
    /\ saw \in [Callers -> {"nothing", "off", "on"}]

RecorderInit ==
    /\ heard = 0
    /\ ring = [i \in 0..(RingMax - 1) |-> 0] /\ at = 0 /\ full = FALSE
    /\ file = NoFile
    /\ saw = [c \in Callers |-> "nothing"]

Recording == file.open

\* writeHeaderLocked: the header of what was counted, or the old one stays.
WriteHeader(f, taken) ==
    file' = IF taken THEN [f EXCEPT !.header = f.bytes] ELSE [f EXCEPT !.whole = FALSE]

\* finishLocked: the header is written once more, and the file is closed.
Finish(f) == \E taken \in BOOLEAN : WriteHeader([f EXCEPT !.open = FALSE], taken)

-----------------------------------------------------------------------------
(* Feed                                                                    *)

Chunk(size) == [i \in 1..size |-> heard + i]

\* The sliding window: position i holds the last unit that landed on it.
Landed(size, i) == {j \in 1..size : (at + j - 1) % RingMax = i}

\* Mutant: the window wraps one unit early.
FillRingShort(size) ==
    /\ ring' = [i \in DOMAIN ring |->
                   IF Landed(size, i) = {} THEN ring[i] ELSE heard + Max(Landed(size, i))]
    /\ at' = (at + size) % RingMax
    /\ full' = (full \/ at + size >= RingMax - 1)
    /\ heard' = heard + size

FillRing(size) ==
    /\ ring' = [i \in DOMAIN ring |->
                   IF Landed(size, i) = {} THEN ring[i] ELSE heard + Max(Landed(size, i))]
    /\ at' = (at + size) % RingMax
    /\ full' = (full \/ at + size >= RingMax)
    /\ heard' = heard + size

\* Mutant: the ring has consumed the slice the file is written from.
WriteConsumed(size, kept) ==
    CASE ~Recording -> UNCHANGED file
      [] Recording /\ file.bytes >= MaxBytes -> Finish([file EXCEPT !.whole = TRUE])
      [] OTHER -> UNCHANGED file

\* The ceiling is looked at before a write; the disk takes kept of the units,
\* and a short write finishes the file without counting it.
WriteFile(size, kept) ==
    CASE ~Recording -> UNCHANGED file
      [] Recording /\ file.bytes >= MaxBytes -> Finish([file EXCEPT !.whole = TRUE])
      [] Recording /\ file.bytes < MaxBytes /\ kept < size ->
            Finish([file EXCEPT !.data = @ \o SubSeq(Chunk(size), 1, kept), !.whole = FALSE])
      [] OTHER ->
            \E taken \in BOOLEAN :
                WriteHeader([file EXCEPT !.data = @ \o Chunk(size), !.bytes = @ + size,
                                         !.whole = TRUE], taken)

Feed(size, kept) == FillRing(size) /\ WriteFile(size, kept)

-----------------------------------------------------------------------------
(* /api/record/start, stop and toggle                                      *)

\* Refused while recording; a file that cannot be created changes nothing.
StartRecording == ~Recording /\ file' = NewFile

StopRecording == Recording /\ Finish([file EXCEPT !.whole = TRUE])

RequestStart(c) == saw[c] = "nothing" /\ StartRecording /\ UNCHANGED saw
RequestStop(c) == saw[c] = "nothing" /\ StopRecording /\ UNCHANGED saw

ToggleLooks(c) ==
    /\ saw[c] = "nothing"
    /\ saw' = [saw EXCEPT ![c] = IF Recording THEN "on" ELSE "off"]
    /\ UNCHANGED file

\* The other side of a toggle: what it saw may no longer be so, or the file may
\* not open, and then it is refused.
ToggleActs(c) ==
    /\ saw[c] # "nothing"
    /\ saw' = [saw EXCEPT ![c] = "nothing"]
    /\ \/ saw[c] = "off" /\ StartRecording
       \/ saw[c] = "on" /\ StopRecording
       \/ (saw[c] = "off" \/ ~Recording) /\ UNCHANGED file

Request(c) ==
    /\ \/ RequestStart(c) \/ RequestStop(c) \/ ToggleLooks(c) \/ ToggleActs(c)
    /\ UNCHANGED ringVars

\* What /api/record/replay writes; it disturbs nothing else.
Replay ==
    (IF full THEN [i \in 1..(RingMax - at) |-> ring[at + i - 1]] ELSE <<>>)
        \o [i \in 1..at |-> ring[i - 1]]

-----------------------------------------------------------------------------
(* Properties                                                              *)

\* A replay is the last of what was received, as much as the ring holds, oldest
\* first and without a gap, however chunks straddle its end
\* (recorder.go:163-167).
ReplayIsTheTail ==
    LET n == IF heard < RingMax THEN heard ELSE RingMax
    IN Replay = [i \in 1..n |-> heard - n + i]

\* A recording is what was received from the moment it began, without a gap and
\* with a header that never claims more than is there (recorder.go:81-85,
\* main.go:265-267).  While it runs nothing is missing, and its header claims all
\* of it, then and when it is stopped by whoever or whatever stops it, unless the
\* disk cut the last samples short or refused the last header.
RecordingIsWhatWasHeard ==
    /\ file.data = [i \in DOMAIN file.data |-> file.from + i]
    /\ file.header <= Len(file.data)
    /\ Recording => file.from + Len(file.data) = heard
    /\ file.whole => file.header = Len(file.data)
=============================================================================

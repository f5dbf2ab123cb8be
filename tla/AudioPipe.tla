----------------------------- MODULE AudioPipe ------------------------------
(***************************************************************************)
(* What relay_media (src/src/bridge.rs) promises of the audio it carries   *)
(* from slmodemd to the far end: the bytes leave in the order they came,   *)
(* none twice and none left out, in packets of whole 16-bit samples; and   *)
(* when slmodemd ends the stream, nothing but half a sample is left.       *)
(***************************************************************************)
EXTENDS Naturals, Sequences, SequencesExt

VARIABLES
    gate,       \* "shut", "open", "ended" by slmodemd or "cut" by an error
    pipe,       \* bytes accepted from slmodemd and not yet sent
    packets     \* payloads sent, as sequences of bytes

pipeVars == <<gate, pipe, packets>>

PipeInit == gate = "shut" /\ pipe = <<>> /\ packets = <<>>

(* The relay starts with what slmodemd has written since the last read.    *)
Opens == gate = "shut" /\ gate' = "open" /\ UNCHANGED packets

Accepts == /\ gate = "open" /\ IsStrictPrefix(pipe, pipe')
           /\ UNCHANGED <<gate, packets>>

Sends(n) == /\ gate = "open" /\ n % 2 = 0
            /\ packets' = Append(packets, SubSeq(pipe, 1, n))
            /\ pipe' = SubSeq(pipe, n + 1, Len(pipe))
            /\ UNCHANGED gate

Ends == /\ gate = "open" /\ Len(pipe) < 2
        /\ gate' = "ended" /\ pipe' = <<>> /\ UNCHANGED packets

Cuts == /\ gate \in {"open", "ended"} /\ gate' = "cut"
        /\ pipe' = <<>> /\ UNCHANGED packets

(* An open pipe is never shut but through an end or an error.              *)
Shuts == /\ gate \in {"ended", "cut"} /\ gate' = "shut"
         /\ UNCHANGED <<pipe, packets>>

PipeNext == \/ Opens \/ Accepts \/ Ends \/ Cuts \/ Shuts
            \/ \E n \in 1 .. Len(pipe) : Sends(n)

PipeSpec == PipeInit /\ [][PipeNext]_pipeVars
=============================================================================

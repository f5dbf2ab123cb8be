------------------------------ MODULE SdpAnswer ------------------------------
(***************************************************************************)
(* parse_answer of src/src/sdp.rs.  A body is a sequence of lines, and a   *)
(* line is what the code makes of it: a `c=' line with the address it      *)
(* names (NoAddr if it does not parse), an `m=audio' line with its port    *)
(* and payload types, or another line, of which only the m-lines of other  *)
(* media matter, and only to a reader that knows about sections.           *)
(***************************************************************************)
EXTENDS Naturals, Sequences

CONSTANTS Addrs, Ports, PayloadTypes

NoAddr  == "no addr"
NoPort  == 65536        \* a word that is no u16, or no word at all
Refused == "refused"    \* parse_answer bails

Connection(a) == [kind |-> "c", addr |-> a]
Audio(p, pts) == [kind |-> "audio", port |-> p, types |-> pts]
OtherMedia    == [kind |-> "media"]

Lines == {Connection(a) : a \in Addrs \cup {NoAddr}}
         \cup {Audio(p, pts) : p \in Ports \cup {NoPort}, pts \in SUBSET PayloadTypes}
         \cup {OtherMedia}

(* Mutation of Reads: the first address counts.                            *)
ReadsFirst(found, line) ==
    IF found.refused THEN found
    ELSE IF line.kind = "c" /\ found.addr = NoAddr THEN [found EXCEPT !.addr = line.addr]
    ELSE IF line.kind = "audio"
         THEN IF line.port = NoPort \/ 0 \notin line.types
              THEN [found EXCEPT !.refused = TRUE]
              ELSE [found EXCEPT !.port = line.port]
    ELSE found

(* One line: a later address or port replaces the one before, and an audio *)
(* line without a port or without PCMU ends the parse.                     *)
Reads(found, line) ==
    IF found.refused THEN found
    ELSE IF line.kind = "c" /\ line.addr # NoAddr THEN [found EXCEPT !.addr = line.addr]
    ELSE IF line.kind = "audio"
         THEN IF line.port = NoPort \/ 0 \notin line.types
              THEN [found EXCEPT !.refused = TRUE]
              ELSE [found EXCEPT !.port = line.port]
    ELSE found

Nothing == [addr |-> NoAddr, port |-> NoPort, refused |-> FALSE]

(* What is left when all lines are read.                                   *)
Endpoint(found) ==
    IF found.refused \/ found.addr = NoAddr \/ found.port = NoPort
    THEN Refused ELSE [addr |-> found.addr, port |-> found.port]

parse_answer(sdp) ==
    LET found[k \in 0 .. Len(sdp)] ==
            IF k = 0 THEN Nothing ELSE Reads(found[k - 1], sdp[k])
    IN  Endpoint(found[Len(sdp)])
=============================================================================

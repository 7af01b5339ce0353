-------------------------------- MODULE Gzip --------------------------------
(***************************************************************************)
(* The gzip layer of archives: a decoder of DEFLATE written by hand, and a *)
(* writer that only stores.  A stream is a chain of blocks; a coded block  *)
(* is read bit by bit, and its codes are rebuilt from the lengths that     *)
(* stand in front of it.  A stream is either one the writer wrapped, or    *)
(* comes from elsewhere, and then every bit of it is open.                 *)
(***************************************************************************)
EXTENDS Integers, Lists

CONSTANTS
    Literals,    \* number of byte values
    Distances,   \* number of distance symbols: symbol s stands for s + 1
    MatchLength, \* what the one length symbol stands for
    MaxCode,     \* the longest code
    Repeat,      \* the shortest run of a repeated code length
    Chunk,       \* what a stored block holds
    Guard,       \* max_out
    Wrapped,     \* what the writer is given
    Foreign,
    MaxRead,     \* bound: bits read of the coded blocks of a stream
    MaxBefore    \* bound: what is out before a block with codes of its own

(* A block ends with the symbol after the literals; then come the lengths. *)
End == Literals
Match == Literals + 1
LitSymbols == 0..Match
DistSymbols == 0..(Distances - 1)
Total == Match + 1 + Distances

VARIABLES
    source,   \* what was wrapped, or Foreign
    blocks,   \* of a wrapped stream: the blocks to come
    at,
    final,    \* the block that is read is the last
    lengths,  \* the code lengths read so far, those of the distances last
    scan,     \* Huffman::decode: [code, first, index] after the bits taken
    taken,    \* the bits of the symbol that is decoded
    symbol,
    read,
    out,
    match     \* the last match: [from, distance]

gzipVars == <<source, blocks, at, final, lengths, scan, taken, symbol, read, out, match>>

------------------------------------------------------------------------------
(* Huffman::build: how many codes there are of each length, and the symbols *)
(* in the order of their codes.                                            *)
Count(code, n) == Cardinality({s \in DOMAIN code : code[s] = n})
Left(code) ==
    LET left[n \in 0..MaxCode] == IF n = 0 THEN 1 ELSE 2 * left[n - 1] - Count(code, n)
    IN left
Buildable(code) == \A n \in 1..MaxCode : Left(code)[n] >= 0
Ordered(code) ==
    SetToSortSeq({s \in DOMAIN code : code[s] > 0},
        LAMBDA s, t : code[s] < code[t] \/ (code[s] = code[t] /\ s < t))

LitCode == [s \in LitSymbols |-> lengths[s + 1]]
DistCode == [s \in DistSymbols |-> lengths[Match + 2 + s]]
Code == IF at = "dist" \/ (at = "symbol" /\ symbol.of = "dist") THEN DistCode ELSE LitCode

(* The fixed codes: all of one length.                                     *)
Width(n) == CHOOSE w \in 0..MaxCode : 2 ^ w >= n /\ \A v \in 0..(w - 1) : 2 ^ v < n
FixedLengths ==
    [i \in 1..Total |-> Width(IF i <= Match + 1 THEN Match + 1 ELSE Distances)]

------------------------------------------------------------------------------
(* deflate_stored_blocks over bytes that are not empty, all in one call.   *)
Stored(data) ==
    LET count == (Len(data) + Chunk - 1) \div Chunk
    IN [i \in 1..count |->
           [final |-> i = count,
            data |-> SubSeq(data, (i - 1) * Chunk + 1,
                            IF i * Chunk < Len(data) THEN i * Chunk ELSE Len(data))]]

Fresh == [code |-> 0, first |-> 0, index |-> 0]
NoSymbol == [of |-> "none", is |-> 0]
Start == [from |-> 0, distance |-> 1]

GzipInit ==
    /\ source \in Wrapped \cup {Foreign}
    /\ blocks = IF source = Foreign THEN <<>> ELSE Stored(source)
    /\ at = "header"
    /\ final = FALSE
    /\ lengths = <<>>
    /\ scan = Fresh /\ taken = <<>> /\ symbol = NoSymbol
    /\ read = 0
    /\ out = <<>>
    /\ match = Start

Goes(label) == at' = label
Scanner == <<scan, taken, symbol, read>>
Output == <<out, match>>

(* Whatever is refused is dropped.                                         *)
Fails ==
    /\ Goes("error")
    /\ blocks' = <<>> /\ final' = FALSE /\ lengths' = <<>>
    /\ scan' = Fresh /\ taken' = <<>> /\ symbol' = NoSymbol
    /\ out' = <<>> /\ match' = Start
    /\ UNCHANGED <<source, read>>

(* The gzip header.                                                        *)
Opens ==
    /\ at = "header"
    /\ Goes("block")
    /\ UNCHANGED <<source, blocks, final, lengths, Scanner, Output>>

(* A block is over, and its codes with it.                                 *)
Ends(last) == Goes(IF last THEN "trailer" ELSE "block") /\ lengths' = <<>>

(* A stored block; the guard comes first.                                  *)
TakesStored(last, data, rest) ==
    IF Len(out) + Len(data) > Guard THEN Fails
    ELSE /\ out' = out \o data
         /\ final' = last /\ blocks' = rest
         /\ Ends(last)
         /\ UNCHANGED <<source, match, Scanner>>
ReadsStored ==
    /\ at = "block"
    /\ IF source = Foreign
       THEN \E last \in BOOLEAN, byte \in 0..(Literals - 1) : TakesStored(last, <<byte>>, <<>>)
       ELSE TakesStored(Head(blocks).final, Head(blocks).data, Tail(blocks))

(* A coded block, with the fixed codes or with its own.                    *)
MeetsCoded ==
    /\ at = "block" /\ source = Foreign
    /\ \E last \in BOOLEAN : final' = last
    /\ \/ Len(out) <= MaxBefore /\ Goes("lengths") /\ UNCHANGED lengths
       \/ Goes("lit") /\ lengths' = FixedLengths
    /\ UNCHANGED <<source, blocks, Scanner, Output>>

(* read_dynamic_tables: a length, the previous one again, or zeros.        *)
Runs ==
    {<<n>> : n \in 0..MaxCode}
    \cup (IF lengths = <<>> THEN {} ELSE {[i \in 1..Repeat |-> Last(lengths)]})
    \cup {[i \in 1..Repeat |-> 0]}
ReadsLengths ==
    /\ at = "lengths" /\ Len(lengths) < Total
    /\ \E run \in Runs :
          IF Len(lengths) + Len(run) > Total THEN Fails
          ELSE /\ lengths' = lengths \o run
               /\ UNCHANGED <<source, blocks, at, final, Scanner, Output>>

(* Codes without an end of block, or over-subscribed, are refused.         *)
Usable == lengths[End + 1] # 0 /\ Buildable(LitCode) /\ Buildable(DistCode)
Builds ==
    /\ at = "lengths" /\ Len(lengths) = Total
    /\ IF Usable THEN Goes("lit") /\ UNCHANGED <<source, blocks, final, lengths, Scanner, Output>>
                 ELSE Fails

------------------------------------------------------------------------------
(* Huffman::decode: one bit more; the codes of a length follow each other. *)
(* Mistake: the first code of a length is not shifted to the next.         *)
NextFirstUnshifted(first, count) == first + count
NextFirst(first, count) == (first + count) * 2

Decodes(bit) ==
    LET n == Len(taken) + 1
        code == scan.code + bit
        count == Count(Code, n)
        hit == code - scan.first < count
    IN IF ~hit /\ n = MaxCode THEN Fails
       ELSE /\ taken' = Append(taken, bit)
            /\ IF hit
               THEN /\ Goes("symbol")
                    /\ symbol' = [of |-> at,
                                  is |-> Ordered(Code)[scan.index + code - scan.first + 1]]
                    /\ scan' = Fresh
               ELSE /\ scan' = [code |-> code * 2, first |-> NextFirst(scan.first, count),
                                index |-> scan.index + count]
                    /\ UNCHANGED <<at, symbol>>
            /\ UNCHANGED <<source, blocks, final, lengths, read, Output>>
ReadsBit ==
    /\ at \in {"lit", "dist"}
    /\ read + Len(taken) < MaxRead
    /\ \E bit \in {0, 1} : Decodes(bit)

(* Or there is none: the stream is cut off.                                *)
RunsOut ==
    /\ at \in {"header", "block", "lengths", "lit", "dist"} /\ source = Foreign
    /\ Fails

(* decode_block: a literal, the end, or a match, byte by byte since it may *)
(* overlap what it copies.                                                 *)
Copied(distance) ==
    FoldLeft(LAMBDA bytes, i : Append(bytes, bytes[Len(out) - distance + i]),
             out, [i \in 1..MatchLength |-> i])
Consumes ==
    /\ taken' = <<>> /\ symbol' = NoSymbol
    /\ read' = read + Len(taken)
    /\ UNCHANGED <<source, blocks, final, scan>>
EmitsLiteral ==
    /\ at = "symbol" /\ symbol.of = "lit" /\ symbol.is < End
    /\ IF Len(out) >= Guard THEN Fails
       ELSE /\ out' = Append(out, symbol.is)
            /\ Goes("lit")
            /\ Consumes /\ UNCHANGED <<lengths, match>>
EndsBlock ==
    /\ at = "symbol" /\ symbol.of = "lit" /\ symbol.is = End
    /\ Ends(final)
    /\ Consumes /\ UNCHANGED Output
MeetsMatch ==
    /\ at = "symbol" /\ symbol.of = "lit" /\ symbol.is = Match
    /\ Goes("dist")
    /\ Consumes /\ UNCHANGED <<lengths, Output>>
EmitsMatch ==
    /\ at = "symbol" /\ symbol.of = "dist"
    /\ LET distance == symbol.is + 1
       IN IF distance > Len(out) \/ Len(out) + MatchLength > Guard THEN Fails
          ELSE /\ out' = Copied(distance)
               /\ match' = [from |-> Len(out), distance |-> distance]
               /\ Goes("lit")
               /\ Consumes /\ UNCHANGED lengths

(* The trailer: checksum and size of what was wrapped.                     *)
Closes ==
    /\ at = "trailer"
    /\ \/ /\ source \in {Foreign, out}
          /\ Goes("done")
          /\ UNCHANGED <<source, blocks, final, lengths, Scanner, Output>>
       \/ source # out /\ Fails

GzipNext ==
    \/ Opens \/ ReadsStored \/ MeetsCoded \/ ReadsLengths \/ Builds
    \/ ReadsBit \/ RunsOut \/ EmitsLiteral \/ EndsBlock \/ MeetsMatch \/ EmitsMatch \/ Closes

GzipSpec == GzipInit /\ [][GzipNext]_gzipVars

------------------------------------------------------------------------------
GzipTypeOK ==
    /\ at \in {"header", "block", "lengths", "lit", "dist", "symbol", "trailer", "done", "error"}
    /\ Len(lengths) <= Total /\ \A i \in DOMAIN lengths : lengths[i] \in 0..MaxCode
    /\ read \in 0..MaxRead

(* RFC 1951, 3.2.2: the codes of a length follow those of the shorter ones, *)
(* in the order of their symbols.                                          *)
FirstCode(code, length) ==
    LET next[n \in 1..MaxCode] ==
            2 * (IF n = 1 THEN 0 ELSE next[n - 1] + Count(code, n - 1))
    IN next[length]
CodeOf(code, s) ==
    FirstCode(code, code[s]) + Cardinality({t \in DOMAIN code : t < s /\ code[t] = code[s]})
Value(bits) == FoldLeft(LAMBDA v, bit : 2 * v + bit, 0, bits)
Spells(code, bits, s) == bits # <<>> /\ code[s] = Len(bits) /\ CodeOf(code, s) = Value(bits)

(* A symbol is decoded from its code of RFC 1951 and from nothing else, no *)
(* code is passed over, a match repeats what stands at its distance even   *)
(* where it overlaps itself, no more comes out than the guard lets, and    *)
(* what was wrapped is read back (archive.rs:320-334, 372-410, 1023-1046). *)
DecodesTrue ==
    /\ at = "symbol" => Spells(Code, taken, symbol.is)
    /\ at \in {"lit", "dist"} => \A s \in DOMAIN Code : ~Spells(Code, taken, s)
    /\ \A i \in 1..MatchLength :
          match.from > 0 => out[match.from + i] = out[match.from + i - match.distance]
    /\ Len(out) <= Guard /\ \A i \in DOMAIN out : out[i] \in 0..(Literals - 1)
    /\ source # Foreign => at # "error"
=============================================================================

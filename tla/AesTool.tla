------------------------------ MODULE AesTool ------------------------------
(***************************************************************************)
(* scripts/imgtool/aestool.py: one run of main() encrypts (or decrypts)    *)
(* the image of one flash region with AES-128-CTR, the initial counter     *)
(* being the region's start address bits 23..4.  Successive runs of a      *)
(* build encrypt several regions with the same key.  The cipher itself     *)
(* (imglib.keys.aes_ctr.crypto, not among these sources) is kept as the    *)
(* range of counter blocks it consumes: one per 16 bytes of input.         *)
(*                                                                         *)
(* Strings handed to validateHex are sequences of characters over a small  *)
(* alphabet; HexLen stands for the 32 of the code.                         *)
(***************************************************************************)
EXTENDS Integers, Sequences, SequencesExt, Bitwise

CONSTANTS
    Offsets,    \* the RE_<type>_OFFSET values macro_parser resolves
    InSizes,    \* InSizes[t]: byte length of the input file for region t
    Types,      \* -t arguments, known region names or not
    KeyStrs,    \* -k arguments, as character sequences
    HexLen      \* the length validateHex demands (32 in the code)

ASSUME HexLen \in Nat \ {0}

HexDigitChars == {"0", "f"}                 \* stand-ins for 0-9a-fA-F
Chars         == HexDigitChars \cup {"g", "x", "_", " ", "-"}

-----------------------------------------------------------------------------
(* validateHex(hex): len(hex) == 32 and int(hex, 16) does not raise        *)

\* What int(s, 16) accepts: surrounding whitespace, one sign, a 0x prefix,
\* then hex digits with single underscores between them (or right after
\* the prefix).
IsDigit(c) == c \in HexDigitChars

Strip(s) ==
    LET keep == {i \in DOMAIN s : s[i] # " "}
    IN  IF keep = {} THEN <<>>
        ELSE SubSeq(s, Min(keep), Max(keep))

DropSign(s)   == IF s # <<>> /\ s[1] = "-" THEN Tail(s) ELSE s
HasPrefix(s)  == Len(s) >= 2 /\ s[1] = "0" /\ s[2] = "x"

\* Digits with optional single underscores between them; a leading
\* underscore is allowed only after a 0x prefix.
DigitGroups(s, afterPrefix) ==
    /\ s # <<>>
    /\ IsDigit(s[Len(s)])
    /\ (IsDigit(s[1]) \/ (afterPrefix /\ s[1] = "_"))
    /\ \A i \in DOMAIN s : IsDigit(s[i]) \/ s[i] = "_"
    /\ \A i \in 1..(Len(s) - 1) : ~(s[i] = "_" /\ s[i + 1] = "_")

IntParses16(s) ==
    LET body == DropSign(Strip(s))
    IN  IF HasPrefix(body) /\ DigitGroups(SubSeq(body, 3, Len(body)), TRUE)
          THEN TRUE
          ELSE DigitGroups(body, FALSE)

\* validateHex returns the string (truthy) or False; here, which of the two.
validateHex(hex) == Len(hex) = HexLen /\ IntParses16(hex)

-----------------------------------------------------------------------------
(* The initial counter                                                      *)

\* Fault variant of StartCounter (mutation check): address bits 23..8.
StartCounterByte(addr) == shiftR(addr & 16777215, 8)

\* startAddress = (startAddress & 0xffffff) >> 4
StartCounter(addr) == shiftR(addr & 16777215, 4)

RECURSIVE HexDigits(_)
HexDigits(n) == IF n < 16 THEN 1 ELSE 1 + HexDigits(n \div 16)

\* validateHex('{:0>32x}'.format(n)): the string is n in hex, left-padded
\* with zeros to 32 characters, all of them hex digits; it passes when it
\* is exactly 32 long.
IvValid(n) == Max({32, HexDigits(n)}) = 32

\* Counter blocks crypto consumes for n bytes: ceil(n / 16).
Blocks(n) == (n + 15) \div 16

-----------------------------------------------------------------------------

VARIABLES
    runs,      \* the output files written: [type, key, ctr, blocks, enc]
    last       \* what the last run did: "written" or the message it printed

vars == <<runs, last>>

Init == runs = {} /\ last = ""

\* main(): offsets[args.type] (KeyError: print and return), the key and the
\* IV validated, then crypto() writes the output file; with an invalid key
\* it prints "Invalid Key or iv" and writes nothing.
Main ==
    \E t \in Types, k \in KeyStrs, decrypt \in BOOLEAN :
        /\ t \in DOMAIN Offsets
        /\ validateHex(k)
        /\ IvValid(StartCounter(Offsets[t]))
        /\ runs' = runs \cup {[type |-> t, key |-> k, ctr |-> StartCounter(Offsets[t]),
                               blocks |-> Blocks(InSizes[t]), enc |-> ~decrypt]}
        /\ last' = "written"

\* The runs that print and write nothing: an unknown region name or a key
\* validateHex refuses.
MainRefused ==
    /\ \E t \in Types, k \in KeyStrs :
          \/ t \notin DOMAIN Offsets /\ last' = "Invalid Start address"
          \/ /\ t \in DOMAIN Offsets
             /\ ~validateHex(k) \/ ~IvValid(StartCounter(Offsets[t]))
             /\ last' = "Invalid Key or iv"
    /\ UNCHANGED runs

Next == Main \/ MainRefused

Spec == Init /\ [][Next]_vars

-----------------------------------------------------------------------------
(* Properties                                                              *)

TypeOK ==
    /\ runs \subseteq [type : DOMAIN Offsets, key : KeyStrs, ctr : Nat,
                      blocks : Nat, enc : BOOLEAN]
    /\ last \in {"", "written", "Invalid Start address", "Invalid Key or iv"}

\* The counter blocks [ctr, ctr + blocks) of two runs overlap.
CtrOverlap(r1, r2) ==
    /\ r1.blocks > 0 /\ r2.blocks > 0
    /\ r1.ctr < r2.ctr + r2.blocks
    /\ r2.ctr < r1.ctr + r1.blocks

\* Across the runs of a build, no two regions encrypted under the same key
\* share an AES-CTR counter block, so no keystream block is used for two
\* different regions' plaintexts; this rests on the IV being address
\* bits 23..4 of each region's start.
NoKeystreamReuse ==
    \A r1, r2 \in runs :
        (r1.enc /\ r2.enc /\ r1.key = r2.key /\ r1.type # r2.type)
            => ~CtrOverlap(r1, r2)

\* Every output file was made with a key of HexLen hexadecimal digits, as
\* the comment on validateHex says it checks ("passed value is hexadecimal
\* and has proper length").
ValidatedKeysAreHex ==
    \A r \in runs : Len(r.key) = HexLen /\ \A i \in DOMAIN r.key : IsDigit(r.key[i])

=============================================================================

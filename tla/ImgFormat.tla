----------------------------- MODULE ImgFormat -----------------------------
(***************************************************************************)
(* The wire format of a signed image, as scripts/imgtool/imglib/image.py   *)
(* writes it: the format constants, struct.pack of the 32-byte image       *)
(* header, the header checksum loop, and the TLV record and info headers.  *)
(* A byte is an integer in 0..255; a packed field is its little-endian     *)
(* bytes, and struct.pack raises struct.error for a value that does not    *)
(* fit its width.  DecodeHeader reads the same bytes back at the offsets   *)
(* of the header table that the boot-time verifier uses.  TLC integers     *)
(* stop at 2^31, so the 32-bit magic and checksum are kept as their four   *)
(* bytes, and the XOR of 32-bit words is taken byte lane by byte lane,     *)
(* which is the same value.                                                *)
(***************************************************************************)
EXTENDS Integers, Sequences, SequencesExt, Bitwise

MANIFEST_VERSION  == 0
IMAGE_MAGIC_LE    == <<61, 184, 243, 150>>   \* IMAGE_MAGIC 0x96f3b83d, packed
IMAGE_HEADER_SIZE == 32
TLV_HEADER_SIZE   == 4
TLV_INFO_SIZE     == 4
TLV_INFO_MAGIC    == 26887          \* 0x6907

IMG_TYPE_VALUES == [MBL |-> 1, IMG |-> 2]
IMG_HASH_VALUES == [SHA256 |-> 1, SHA512 |-> 2]
IMG_SIG_VALUES  == [ED25519 |-> 1, ECDSA256 |-> 2]
TLV_TYPE_VALUES == [DIGEST |-> 1, CERT_PK |-> 2, CERT |-> 3, PK |-> 4, SIG |-> 5]

Byte == 0..255

\* The range struct.pack accepts for an unsigned field of w bytes.  A
\* 4-byte field holds every value TLC represents; the 32-bit fields that
\* could exceed it (sizes) stay below 2^17 in every model.
Fits(n, w) == n >= 0 /\ (w >= 4 \/ n < 2^(8 * w))

\* Fault variant of LE (mutation check): the byte is not reduced mod 256.
LE_Unmasked(n, w) == [i \in 1..w |-> n \div 2^(8 * (i - 1))]

\* struct.pack('<' + code) of one unsigned field of w bytes.
LE(n, w) == [i \in 1..w |-> (n \div 2^(8 * (i - 1))) % 256]

\* The unsigned little-endian value of the w bytes s[o+1..o+w].
ULE(s, o, w) == SumFunction([i \in 1..w |-> s[o + i] * 2^(8 * (i - 1))])

\* The widths of the header format '<IIBBBBHHIBBHI' after the magic word
\* (the checksum word follows the format).
HDR_WIDTHS == <<4, 1, 1, 1, 1, 2, 2, 4, 1, 1, 2, 4>>

PackOK(vals) == \A i \in DOMAIN vals : Fits(vals[i], HDR_WIDTHS[i])
Pack(vals)   == FlattenSeq([i \in DOMAIN vals |-> LE(vals[i], HDR_WIDTHS[i])])

\* Fault variant of Checksum (mutation check): the loop starts at n = 4.
ChecksumFromSecondWord(h) ==
    [lane \in 1..4 |->
        FoldLeft(LAMBDA acc, n : acc ^^ h[n + lane], 0,
                 [j \in 1..(Len(h) \div 4 - 1) |-> 4 * j])]

\* The while loop of add_header: XOR of the header read as little-endian
\* 32-bit words, four bytes at a time; the result packed '<I'.
Checksum(h) ==
    [lane \in 1..4 |->
        FoldLeft(LAMBDA acc, n : acc ^^ h[n + lane], 0,
                 [j \in 1..(Len(h) \div 4) |-> 4 * (j - 1)])]

\* TLV.add: struct.pack('<BBH', type, 0, len(payload)).
RecordHeader(kind, len) == <<TLV_TYPE_VALUES[kind], 0>> \o LE(len, 2)

\* Fault variant of InfoHeader (mutation check): the native order of a
\* big-endian host.
InfoHeaderBigEndian(size) ==
    <<TLV_INFO_MAGIC \div 256, TLV_INFO_MAGIC % 256, (size \div 256) % 256, size % 256>>

\* sign: struct.pack('HH', TLV_INFO_MAGIC, tlv_size), native order on a
\* little-endian host.
InfoHeader(size) == LE(TLV_INFO_MAGIC, 2) \o LE(size, 2)

\* The fields of a header starting after offset o of s, at the offsets of
\* the header table: the verifier's reading of the bytes.
DecodeHeader(s, o) ==
    [magic    |-> SubSeq(s, o + 1, o + 4), tot_size |-> ULE(s, o + 4, 4),
     mani     |-> s[o + 9],           type     |-> s[o + 10],
     hash     |-> s[o + 11],          sig      |-> s[o + 12],
     hdr_size |-> ULE(s, o + 12, 2),  tlv_size |-> ULE(s, o + 14, 2),
     img_size |-> ULE(s, o + 16, 4),  major    |-> s[o + 21],
     minor    |-> s[o + 22],          revision |-> ULE(s, o + 22, 2),
     rsvd     |-> ULE(s, o + 24, 4),  chksum   |-> SubSeq(s, o + 29, o + 32)]

\* The spec's checksum: the XOR of the seven header words composed from
\* the decoded field values (reference for Checksum), as four bytes.
FieldWordsXor(f) ==
    LET w == << f.magic, LE(f.tot_size, 4), <<f.mani, f.type, f.hash, f.sig>>,
                LE(f.hdr_size, 2) \o LE(f.tlv_size, 2), LE(f.img_size, 4),
                <<f.major, f.minor>> \o LE(f.revision, 2), LE(f.rsvd, 4) >>
    IN  [lane \in 1..4 |-> FoldLeft(LAMBDA acc, x : acc ^^ x[lane], 0, w)]

=============================================================================

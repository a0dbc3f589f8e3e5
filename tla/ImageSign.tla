----------------------------- MODULE ImageSign -----------------------------
(***************************************************************************)
(* The life of one Image object of scripts/imgtool/imglib/image.py:        *)
(* Image.load (with check), Image.sign (with add_header and the TLV        *)
(* class), Image.pad_to and Image.save.  Each method is one action; a      *)
(* Python exception ends the run in phase "raised" with the object in      *)
(* whatever state the method had reached.                                  *)
(*                                                                         *)
(* self.payload is kept as two variables: `payload`, the bytes up to the   *)
(* end of the firmware (the only part any method slices), and `trailer`,   *)
(* the chunks that sign and pad_to append after it.  A chunk is either a   *)
(* run of packed bytes ("raw") or an opaque value of a given width: a      *)
(* public key, a certificate, a digest, a signature, or 0xFF fill.         *)
(***************************************************************************)
EXTENDS ImgFormat, ImgKeys

CONSTANTS
    Types,         \* image types passed to Image(type=...)
    Versions,      \* version values as [hi, lo] = hi * 2^16 + lo; hi may pass 2^16
    HeaderSizes,   \* header_size argument (0 selects IMAGE_HEADER_SIZE)
    HashAlgs,      \* algo_hash argument
    SigAlgs,       \* algo_sig argument
    Firmwares,     \* raw firmware contents, as byte sequences
    SignKeys,      \* the `key` argument of sign
    CertModes,     \* whether sign is given a certificate file
    CertSizes,     \* length of the certificate file
    CertKeys,      \* the `cert_key` argument of sign
    PadDeltas,     \* pad_to size, relative to the image length at the call
    PadAligns      \* pad_to align argument

ASSUME Versions \subseteq [hi : Nat, lo : 0..65535] /\ HeaderSizes \subseteq Nat
ASSUME CertSizes \subseteq Nat /\ PadAligns \subseteq Nat \ {0}

VARIABLES
    phase,     \* "init", "loaded", "returned", "signed", "padded", "saved", "raised"
    img,       \* the Image attributes other than payload
    payload,   \* self.payload up to the end of the firmware
    trailer,   \* the chunks appended to self.payload by sign and pad_to
    err,       \* the exception that ended the run, and the method raising it
    loaded,    \* history: payload as Image.load returned it
    signArgs,  \* history: the arguments of the sign call that got past its checks
    padArgs    \* history: <<size, align>> of the pad_to call that completed

vars == <<phase, img, payload, trailer, err, loaded, signArgs, padArgs>>

NoImage == [type |-> "", version |-> [hi |-> 0, lo |-> 0], header_size |-> 0,
            algo_hash |-> "", algo_sig |-> ""]
NoErr   == [op |-> "", exc |-> ""]
NoSign  == [key |-> NoKey, useCert |-> FALSE, certSize |-> 0, certKey |-> NoKey]

Zeros(n)     == [i \in 1..n |-> 0]
FillBytes(n) == [i \in 1..n |-> 255]      \* b'\xff' * n, empty when n <= 0

\* Python s[i:] on a sequence: a negative i counts from the end.
PySliceFrom(s, i) ==
    SubSeq(s, (IF i < 0 THEN Max({0, Len(s) + i}) ELSE Min({i, Len(s)})) + 1, Len(s))

Raw(bs)       == [k |-> "raw", w |-> Len(bs), data |-> bs]
Width(t)      == SumFunction([i \in DOMAIN t |-> t[i].w])
TotalLen      == Len(payload) + Width(trailer)

-----------------------------------------------------------------------------
(* Image.load and Image.check                                              *)

\* What a file on disk may hold: the firmware alone, or a header region in
\* front of it that is zero, dirty, or shorter than header_size.
Files(n, fw) == {fw} \cup {r \o fw : r \in {Zeros(n), <<1>> \o Zeros(n - 1),
                                           Zeros(n - 8)}}

LoadedPayload(file, included, n) ==
    IF ~included /\ n > 0 THEN Zeros(n) \o file ELSE file

\* check(): the first header_size bytes must all be zero.
CheckFails(p, n) == n > 0 /\ \E i \in 1..Min({n, Len(p)}) : p[i] # 0

Load ==
    /\ phase = "init"
    /\ \E t \in Types, v \in Versions, h \in HeaderSizes, ha \in HashAlgs,
          sa \in SigAlgs, fw \in Firmwares, included \in BOOLEAN :
        LET n == IF h = 0 THEN IMAGE_HEADER_SIZE ELSE h   \* header_size or 32
        IN \E file \in Files(n, fw) :
            LET p == LoadedPayload(file, included, n)
            IN  /\ img' = [type |-> t, version |-> v, header_size |-> n,
                           algo_hash |-> ha, algo_sig |-> sa]
                /\ payload' = p
                /\ loaded' = p
                /\ IF CheckFails(p, n)
                     THEN phase' = "raised" /\ err' = [op |-> "load", exc |-> "Exception"]
                     ELSE phase' = "loaded" /\ err' = err
    /\ UNCHANGED <<trailer, signArgs, padArgs>>

-----------------------------------------------------------------------------
(* Image.sign and Image.add_header                                         *)

\* sign returns after a print when the trust path lacks its key.
MissingCompanion(a) == IF a.useCert THEN a.certKey = NoKey ELSE a.key = NoKey

DigestSz == IF img.algo_hash = "SHA512" THEN 64 ELSE 32

\* Fault variant of TlvSize (mutation check): the 4-byte info header is
\* left out of the total.
TlvSizeNoInfo(a) ==
    LET pub       == IF a.useCert THEN PubLen[a.certKey] ELSE PubLen[a.key]
        cert_size == IF a.useCert THEN a.certSize ELSE 0
    IN  (TLV_HEADER_SIZE + pub) + (TLV_HEADER_SIZE + cert_size)
          + (TLV_HEADER_SIZE + DigestSz) + (TLV_HEADER_SIZE + sig_len[a.key])

\* The trailer size, computed before any record is built.
TlvSize(a) ==
    LET pub       == IF a.useCert THEN PubLen[a.certKey] ELSE PubLen[a.key]
        cert_size == IF a.useCert THEN a.certSize ELSE 0
    IN  TLV_INFO_SIZE + (TLV_HEADER_SIZE + pub) + (TLV_HEADER_SIZE + cert_size)
          + (TLV_HEADER_SIZE + DigestSz) + (TLV_HEADER_SIZE + sig_len[a.key])

\* Fault variants (mutation checks): the firmware size taken after the
\* fixed header instead of header_size; minor without the 0xFFFFFF mask.
ImgSizeFixedHeader == Len(payload) - IMAGE_HEADER_SIZE
MinorUnmasked      == img.version.hi

ImgSize  == Len(payload) - img.header_size
\* version >> 24, (version & 0xFFFFFF) >> 16 and version & 0xFFFF.
Major    == img.version.hi \div 2^8
Minor    == img.version.hi % 2^8
Revision == img.version.lo

HeaderKeyError ==
    \/ img.type \notin DOMAIN IMG_TYPE_VALUES
    \/ img.algo_hash \notin DOMAIN IMG_HASH_VALUES
    \/ img.algo_sig \notin DOMAIN IMG_SIG_VALUES

HeaderVals(tlv) ==
    << IMAGE_HEADER_SIZE + ImgSize + tlv, MANIFEST_VERSION,
       IMG_TYPE_VALUES[img.type], IMG_HASH_VALUES[img.algo_hash],
       IMG_SIG_VALUES[img.algo_sig], IMAGE_HEADER_SIZE, tlv, ImgSize,
       Major, Minor, Revision, 0 >>

Header(tlv) == LET h == IMAGE_MAGIC_LE \o Pack(HeaderVals(tlv)) IN h \o Checksum(h)

\* self.payload[:len(header_with_pad)] = header_with_pad
AddHeader(tlv) ==
    LET hp == FillBytes(img.header_size - IMAGE_HEADER_SIZE) \o Header(tlv)
    IN  hp \o SubSeq(payload, Len(hp) + 1, Len(payload))

\* The exception sign raises before it touches self.payload, if any.
EarlyError(a) ==
    CASE a.key = NoKey                    -> "AttributeError"  \* key.sig_len()
      [] HeaderKeyError                   -> "KeyError"
      [] ~PackOK(HeaderVals(TlvSize(a)))  -> "StructError"
      [] OTHER                            -> ""

\* Fault variant of HashSrc (mutation check): hashing from offset 0.
HashSrcWhole(p) == p

\* payload[(header_size - IMAGE_HEADER_SIZE):len(payload)], the signed region.
HashSrc(p) == PySliceFrom(p, img.header_size - IMAGE_HEADER_SIZE)

\* The hashlib digest of the region: 64 bytes for SHA-512, else SHA-256.
DigestBlob(src) ==
    IF img.algo_hash = "SHA512"
      THEN [k |-> "DIGEST", w |-> 64, data |-> [alg |-> "SHA512", of |-> src]]
      ELSE [k |-> "DIGEST", w |-> 32, data |-> [alg |-> "SHA256", of |-> src]]

\* key.sign(hashsrc) when the class has `sign` (hashing with SHA-256
\* itself), else key.sign_digest(digest).
SigBlob(key, dg) ==
    [k |-> "SIG", w |-> SigOutLen[key],
     data |-> IF key \in HasSign
                THEN [by |-> key, signs |-> "content", alg |-> "SHA256", of |-> dg.data.of]
                ELSE [by |-> key, signs |-> "digest", alg |-> dg.data.alg, of |-> dg.data.of]]

PubBlob(kind, key) == [k |-> kind, w |-> PubLen[key], data |-> key]
CertBlob(n)        == [k |-> "CERT", w |-> n, data |-> "cert"]

\* TLV.add: the packed record header followed by the value.
TlvAdd(blob) == <<Raw(RecordHeader(blob.k, blob.w)), blob>>

\* The records added before the signature is made.
TrustRecords(a) ==
    IF a.useCert
      THEN <<PubBlob("CERT_PK", a.certKey), CertBlob(a.certSize)>>
      ELSE <<PubBlob("PK", a.key)>>

\* Fault variant of TlvRecords (mutation check): digest added first.
TlvRecordsDigestFirst(a, src) ==
    LET dg == DigestBlob(src)
        rs == <<dg>> \o TrustRecords(a) \o <<SigBlob(a.key, dg)>>
    IN  FlattenSeq([i \in DOMAIN rs |-> TlvAdd(rs[i])])

\* The TLV buffer in the order sign adds the records.
TlvRecords(a, src) ==
    LET dg == DigestBlob(src)
        rs == TrustRecords(a) \o <<dg, SigBlob(a.key, dg)>>
    IN  FlattenSeq([i \in DOMAIN rs |-> TlvAdd(rs[i])])

\* Fault variant of LateError (mutation check): record lengths checked
\* against a one-byte field.
LateErrorByteLength(a) ==
    CASE \E i \in DOMAIN TrustRecords(a) : ~Fits(TrustRecords(a)[i].w, 1)
                                                   -> "StructError"
      [] a.key \notin HasSign \cup HasSignDigest    -> "AttributeError"
      [] OTHER                                      -> ""

\* The exception sign raises after add_header has rewritten self.payload:
\* a record longer than 16 bits in TLV.add, or a key with neither signing
\* method.
LateError(a) ==
    CASE \E i \in DOMAIN TrustRecords(a) : ~Fits(TrustRecords(a)[i].w, 2)
                                                   -> "StructError"
      [] a.key \notin HasSign \cup HasSignDigest    -> "AttributeError"
      [] OTHER                                      -> ""

\* self.algo_hash = 'SHA256' in the non-SHA512 branch.
NormalizedImg == [img EXCEPT !.algo_hash = IF @ = "SHA512" THEN @ ELSE "SHA256"]

SignArgs == [key : SignKeys, useCert : CertModes, certSize : CertSizes,
             certKey : CertKeys]

SignReturn(a) ==
    /\ MissingCompanion(a)
    /\ phase' = "returned"
    /\ UNCHANGED <<img, payload, trailer, err, loaded, signArgs, padArgs>>

SignRaiseEarly(a) ==
    /\ ~MissingCompanion(a)
    /\ EarlyError(a) # ""
    /\ phase' = "raised"
    /\ err' = [op |-> "sign", exc |-> EarlyError(a)]
    /\ signArgs' = a
    /\ UNCHANGED <<img, payload, trailer, loaded, padArgs>>

SignRaiseLate(a) ==
    /\ ~MissingCompanion(a)
    /\ EarlyError(a) = ""
    /\ LateError(a) # ""
    /\ payload' = AddHeader(TlvSize(a))
    /\ img' = NormalizedImg
    /\ phase' = "raised"
    /\ err' = [op |-> "sign", exc |-> LateError(a)]
    /\ signArgs' = a
    /\ UNCHANGED <<trailer, loaded, padArgs>>

SignComplete(a) ==
    /\ ~MissingCompanion(a)
    /\ EarlyError(a) = ""
    /\ LateError(a) = ""
    /\ payload' = AddHeader(TlvSize(a))
    /\ img' = NormalizedImg
    /\ trailer' = trailer \o <<Raw(InfoHeader(TlvSize(a)))>>
                          \o TlvRecords(a, HashSrc(payload'))
    /\ signArgs' = a
    /\ phase' = "signed"
    /\ UNCHANGED <<err, loaded, padArgs>>

\* sign(key, cert_file, cert_key) with the arguments a.
SignWith(a) ==
    /\ phase = "loaded"
    /\ \/ SignReturn(a)
       \/ SignRaiseEarly(a)
       \/ SignRaiseLate(a)
       \/ SignComplete(a)

Sign == \E a \in SignArgs : SignWith(a)

-----------------------------------------------------------------------------
(* Image.pad_to and Image.save                                             *)

\* Fault variant of PadTarget (mutation check): adds the remainder
\* instead of what is missing to the next multiple.
PadTargetAddRemain(size, align) ==
    IF size % align # 0 THEN size + (size % align) ELSE size

\* size rounded up to a multiple of align.
PadTarget(size, align) ==
    IF size % align # 0 THEN size + (align - (size % align)) ELSE size

PadTo ==
    /\ phase \in {"returned", "signed"}
    /\ \E d \in PadDeltas, align \in PadAligns :
        LET size    == TotalLen + d
            padding == PadTarget(size, align) - TotalLen
        IN  CASE align \notin {1, 2, 4, 8} \/ padding < 0 ->
                   /\ phase' = "raised"
                   /\ err' = [op |-> "pad_to", exc |-> "Exception"]
                   /\ UNCHANGED <<trailer, padArgs>>
              [] OTHER ->
                   /\ trailer' = IF padding > 0
                                   THEN Append(trailer, [k |-> "FILL", w |-> padding, data |-> 255])
                                   ELSE trailer
                   /\ padArgs' = <<size, align>>
                   /\ phase' = "padded"
                   /\ UNCHANGED err
    /\ UNCHANGED <<img, payload, loaded, signArgs>>

\* The phases after which the command calls save: sign returned or
\* completed, pad_to called or not.
SaveFrom == {"returned", "signed", "padded"}

Save ==
    /\ phase \in SaveFrom
    /\ phase' = "saved"
    /\ UNCHANGED <<img, payload, trailer, err, loaded, signArgs, padArgs>>

Init ==
    /\ phase = "init"
    /\ img = NoImage
    /\ payload = <<>>
    /\ trailer = <<>>
    /\ err = NoErr
    /\ loaded = <<>>
    /\ signArgs = NoSign
    /\ padArgs = <<0, 1>>

Next == Load \/ Sign \/ PadTo \/ Save

Spec == Init /\ [][Next]_vars

-----------------------------------------------------------------------------
(* What the boot-time verifier reads back, and the properties              *)

Signed   == signArgs # NoSign /\ err.op # "sign"
HdrOff   == Max({img.header_size - IMAGE_HEADER_SIZE, 0})
Hdr      == DecodeHeader(payload, HdrOff)
Firmware == SubSeq(loaded, img.header_size + 1, Len(loaded))

\* The chunks sign appended (pad_to's fill excluded) and the TLV values.
SignedTrailer == SelectSeq(trailer, LAMBDA c : c.k # "FILL")
Values        == [j \in 1..((Len(SignedTrailer) - 1) \div 2) |-> SignedTrailer[2 * j + 1]]
RecHeaders    == [j \in 1..((Len(SignedTrailer) - 1) \div 2) |-> SignedTrailer[2 * j]]
ValueOf(kind) == Values[CHOOSE j \in DOMAIN Values : Values[j].k = kind]

ChunkKinds == {"raw", "PK", "CERT_PK", "CERT", "DIGEST", "SIG", "FILL"}

TypeOK ==
    /\ phase \in {"init", "loaded", "returned", "signed", "padded", "saved", "raised"}
    /\ payload \in Seq(Byte)
    /\ loaded \in Seq(Byte)
    /\ \A i \in DOMAIN trailer :
          /\ trailer[i].k \in ChunkKinds
          /\ trailer[i].w \in Nat
          /\ trailer[i].k = "raw" => trailer[i].data \in Seq(Byte)
    /\ err.op \in {"", "load", "sign", "pad_to"}
    /\ signArgs \in SignArgs \cup {NoSign}

\* Header checksum (add_header's XOR loop): the checksum word of a signed
\* image equals the XOR of the seven header words built from the field
\* values the verifier decodes, so the header passes the boot check.
HeaderChecksumValid == Signed => Hdr.chksum = FieldWordsXor(Hdr)

\* Header round trip (add_header): decoding the header at its offset gives
\* back the image type, algorithms, version (major.minor.revision
\* recombined), the firmware length, and a total size that adds up.
SignedHeaderDecodes ==
    Signed =>
      /\ Hdr.magic = IMAGE_MAGIC_LE /\ Hdr.mani = MANIFEST_VERSION
      /\ Hdr.type = IMG_TYPE_VALUES[img.type]
      /\ Hdr.hash = IMG_HASH_VALUES[img.algo_hash]
      /\ Hdr.sig = IMG_SIG_VALUES[img.algo_sig]
      /\ Hdr.major * 2^8 + Hdr.minor = img.version.hi
      /\ Hdr.revision = img.version.lo
      /\ Hdr.img_size = Len(Firmware)
      /\ Hdr.hdr_size = IMAGE_HEADER_SIZE /\ Hdr.rsvd = 0
      /\ Hdr.tot_size = IMAGE_HEADER_SIZE + Hdr.img_size + Hdr.tlv_size

\* The trailer size of the spec (section 4.3, step 3): the certificate
\* record only when a certificate is used.
SpecTlvSize(a) ==
    TLV_INFO_SIZE + TLV_HEADER_SIZE
      + (IF a.useCert THEN PubLen[a.certKey] + TLV_HEADER_SIZE + a.certSize
                      ELSE PubLen[a.key])
      + TLV_HEADER_SIZE + (IF img.algo_hash = "SHA512" THEN 64 ELSE 32)
      + TLV_HEADER_SIZE + SigOutLen[a.key]

\* Inputs the spec says sign must reject: a version wider than 32 bits, an
\* unknown type or algorithm name, no private signing key, a file shorter
\* than its header region, or a trailer too large for its 16-bit field.
BadSignInput(a) ==
    \/ img.version.hi >= 2^16
    \/ img.type \notin {"MBL", "IMG"}
    \/ img.algo_hash \notin {"SHA256", "SHA512"}
    \/ img.algo_sig \notin {"ED25519", "ECDSA256"}
    \/ a.key \notin {"Ed25519", "RSA2048"}
    \/ Len(loaded) < img.header_size
    \/ SpecTlvSize(a) > 65535

\* sign raises only for bad inputs: every exception out of sign (KeyError,
\* struct.error, AttributeError) is explained by one of them.
SignRaisesOnlyOnBadInput == err.op = "sign" => BadSignInput(signArgs)

\* A failing sign leaves the image as loaded: no exception escapes sign
\* after add_header has rewritten the header region (spec section 7).
SignFailsCleanly == err.op = "sign" => payload = loaded /\ trailer = <<>>

\* The digest covers exactly the 32-byte header as finally written plus the
\* whole firmware, and nothing of the 0xFF fill before the header.
DigestCoversImage ==
    Signed =>
      ValueOf("DIGEST").data.of =
        SubSeq(payload, HdrOff + 1, HdrOff + IMAGE_HEADER_SIZE) \o Firmware

\* Trailer layout: after the TLV info header come the records in the order
\* PK, DIGEST, SIG (or CERT_PK, CERT, DIGEST, SIG); every record header
\* carries its value's type code and length; the key record holds the key
\* that signed (or the certificate key); the digest is of the algorithm the
\* header declares; the signature is by the signing key over that region.
TrailerWellFormed ==
    Signed =>
      /\ [j \in DOMAIN Values |-> Values[j].k] =
            IF signArgs.useCert THEN <<"CERT_PK", "CERT", "DIGEST", "SIG">>
                                ELSE <<"PK", "DIGEST", "SIG">>
      /\ \A j \in DOMAIN Values :
            RecHeaders[j].data = RecordHeader(Values[j].k, Values[j].w)
      /\ IF signArgs.useCert THEN ValueOf("CERT_PK").data = signArgs.certKey
                             ELSE ValueOf("PK").data = signArgs.key
      /\ IMG_HASH_VALUES[ValueOf("DIGEST").data.alg] = Hdr.hash
      /\ ValueOf("DIGEST").w = IF Hdr.hash = 2 THEN 64 ELSE 32
      /\ ValueOf("SIG").data.by = signArgs.key
      /\ ValueOf("SIG").data.of = ValueOf("DIGEST").data.of

\* Sizes: the header's trailer size, the TLV info header's size and the
\* bytes actually appended agree, and the header's total size reaches from
\* the header to the end of the trailer.
TrailerSizeMatches ==
    Signed =>
      /\ Hdr.tlv_size = Width(SignedTrailer)
      /\ ULE(SignedTrailer[1].data, 2, 2) = Width(SignedTrailer)
      /\ Hdr.tot_size = Len(payload) - HdrOff + Width(SignedTrailer)

\* With a certificate the sizes agree (the path where the code's tlv_size
\* counts a record it really writes); without one they do not, see the
\* sizes_nocert run.
CertTrailerSizeMatches == signArgs.useCert => TrailerSizeMatches

\* pad_to: the padded image ends on the next multiple of align at or after
\* the requested size, never short of it and never a full align beyond.
PaddedLengthAligned ==
    padArgs # <<0, 1>> =>
      /\ TotalLen % padArgs[2] = 0
      /\ padArgs[1] <= TotalLen
      /\ TotalLen < padArgs[1] + padArgs[2]

\* The header's signature-algorithm code names the algorithm of the key
\* that made the signature record.
SigAlgKeys == [ED25519 |-> {"Ed25519"}, ECDSA256 |-> {}]
SigAlgMatchesKey ==
    Signed => \E n \in DOMAIN IMG_SIG_VALUES :
                 IMG_SIG_VALUES[n] = Hdr.sig /\ signArgs.key \in SigAlgKeys[n]

=============================================================================

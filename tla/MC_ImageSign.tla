--------------------------- MODULE MC_ImageSign ----------------------------
(***************************************************************************)
(* Model-checking instances of ImageSign.  Versions straddle the 32-bit    *)
(* boundary of the header's version fields; header sizes are the default   *)
(* (0 selects 32) and an oversized region with 0xFF fill; the firmware is  *)
(* empty or four bytes that include a zero and a 0xFF; certificate sizes   *)
(* are an ordinary one and one that overflows the 16-bit trailer size.    *)
(***************************************************************************)
EXTENDS ImageSign

MC_Types       == {"MBL", "IMG"}
\* 0x01020003, 2^32 - 1 and 2^32
MC_Versions    == {[hi |-> 258, lo |-> 3], [hi |-> 65535, lo |-> 65535],
                   [hi |-> 65536, lo |-> 0]}
MC_HeaderSizes == {0, 48}
MC_HashAlgs    == {"SHA256", "SHA512", "SHA384"}
MC_SigAlgs     == {"ED25519", "ECDSA256"}
MC_Firmwares   == {<<>>, <<165, 0, 255, 90>>}
MC_CertSizes   == {100, 65500}
MC_PadDeltas   == {-1, 2}
MC_PadAligns   == {3, 4}

\* Every key class, and the absent key.
MC_AllKeys     == KeyClasses \cup {NoKey}

\* Keys with private material, and the absent key.
MC_PrivateKeys == {"Ed25519", "RSA2048", "None"}

\* Public-only signing keys.
MC_PublicKeys  == {"Ed25519Public", "RSA2048Public"}

MC_CertKeys    == {"Ed25519", "RSA2048Public", "None"}

\* One ordinary version, for the runs that check temporal properties.
MC_OneVersion  == {[hi |-> 258, lo |-> 3]}

\* Header regions shorter than the fixed header.
MC_SmallHeaderSizes == {16}

=============================================================================

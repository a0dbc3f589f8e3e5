-------------------------- MODULE MC_ImagePipeline -------------------------
(***************************************************************************)
(* Model-checking instance of ImagePipeline.  The image side is one        *)
(* ordinary image (the header, sizes and padding are checked in            *)
(* MC_ImageSign); the key side has both algorithms, two files, a password *)
(* and the empty one, and two generated pairs, enough for private and     *)
(* public exports over each other and loading either back.               *)
(***************************************************************************)
EXTENDS ImagePipeline

MC_Types     == {"IMG"}
MC_Versions  == {[hi |-> 258, lo |-> 3]}
MC_Firmwares == {<<165, 0, 255, 90>>}
MC_AllKeys   == KeyClasses \cup {NoKey}
MC_Algs      == {"rsa", "ed25519"}
MC_Paths     == {"key.pem", "key-pub.pem"}

=============================================================================

--------------------------- MODULE ImagePipeline ---------------------------
(***************************************************************************)
(* Key files and image signing together, as the imgtool sign command       *)
(* drives them (the command is not among these sources; its order is the   *)
(* control flow of the spec, section 2): any key management calls first    *)
(* (KeyFile), then key = keys.load(keyfile, passwd), Image.load,           *)
(* img.sign(key, None, None), img.pad_to and img.save.  An exception out   *)
(* of keys.load ends the command before the image is read.                 *)
(***************************************************************************)
EXTENDS KeyFile, ImageSign

VARIABLES
    stage,     \* "keys" before the sign command loads its key, then "image"
    signKey    \* what keys.load returned: a key class or "None"

pvars   == <<stage, signKey>>
allVars == <<kvars, vars, pvars>>

\* keygen, getpriv, getpub and the like, run before the sign command.
KeyManagement ==
    /\ stage = "keys"
    /\ KNext
    /\ UNCHANGED <<vars, pvars>>

\* key = keys.load(keyfile, passwd): a key or None is passed on to sign;
\* an exception ends the command.
CallerLoadKey ==
    /\ stage = "keys"
    /\ \E path \in Paths, pw \in Passwords \cup {NoPass} : LoadKeyFrom(path, pw)
    /\ IF result'.out \in KeyClasses \cup {NoKey}
         THEN stage' = "image" /\ signKey' = result'.out
         ELSE stage' = "failed" /\ UNCHANGED signKey
    /\ UNCHANGED vars

CallerLoadImage ==
    /\ stage = "image"
    /\ Load
    /\ UNCHANGED <<kvars, pvars>>

CallerSign ==
    /\ stage = "image"
    /\ \E a \in SignArgs : a.key = signKey /\ SignWith(a)
    /\ UNCHANGED <<kvars, pvars>>

CallerPadSave ==
    /\ stage = "image"
    /\ PadTo \/ Save
    /\ UNCHANGED <<kvars, pvars>>

PInit ==
    /\ KInit
    /\ Init
    /\ stage = "keys"
    /\ signKey = NoKey

PNext == KeyManagement \/ CallerLoadKey \/ CallerLoadImage \/ CallerSign \/ CallerPadSave

PSpec == PInit /\ [][PNext]_allVars

-----------------------------------------------------------------------------
(* Properties                                                              *)

PTypeOK ==
    /\ stage \in {"keys", "image", "failed"}
    /\ signKey \in KeyClasses \cup {NoKey}
    /\ KTypeOK
    /\ TypeOK

=============================================================================

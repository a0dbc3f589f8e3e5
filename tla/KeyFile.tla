------------------------------ MODULE KeyFile ------------------------------
(***************************************************************************)
(* Key objects and key files of imglib/keys (rsa.py, ed25519.py):          *)
(* generate, export_private, export_public and create_csr on the key       *)
(* classes, and keys.load (not among these sources; modelled from the      *)
(* spec's key-loading collaborator and from what rsa_test.py asserts of    *)
(* it).  A key pair is a number; a file holds what the export wrote.      *)
(***************************************************************************)
EXTENDS ImgKeys, Naturals, Sequences, FiniteSets

CONSTANTS
    Algs,        \* key algorithms a caller generates: "rsa", "ed25519"
    Paths,       \* file names
    Passwords,   \* passwd arguments other than None; "" is the empty bytes
    MaxPairs,    \* bound on generate calls
    MaxObjs,     \* bound on key objects the caller holds
    WriteFaults  \* {FALSE} or {FALSE, TRUE}: whether a file write may fail

ASSUME Algs \subseteq {"rsa", "ed25519"} /\ {MaxPairs, MaxObjs} \subseteq Nat
ASSUME WriteFaults \subseteq BOOLEAN

NoPass  == "None"
NoFile  == [kind |-> "none", pair |-> 0, enc |-> NoPass]

\* The private and the public-only class of each algorithm.
PrivClass == [rsa |-> "RSA2048", ed25519 |-> "Ed25519"]
PubClass  == [rsa |-> "RSA2048Public", ed25519 |-> "Ed25519Public"]
PublicClasses == {PubClass[a] : a \in DOMAIN PubClass}

\* _unsupported: RSAUsageError or Ed25519UsageError.
UsageError == [rsa |-> "RSAUsageError", ed25519 |-> "Ed25519UsageError"]

VARIABLES
    pairs,     \* pairs[i]: the algorithm of the i-th generated key pair
    objs,      \* key objects in memory: [cls, pair]
    files,     \* files[p]: [kind, pair, enc], kind "none" when absent
    result     \* outcome of the last call: [op, out]

kvars == <<pairs, objs, files, result>>

AlgOf(o) == pairs[o.pair]

-----------------------------------------------------------------------------
(* The key classes                                                         *)

\* with open(path, 'wb') as f: f.write(pem): the open truncates the file;
\* the write puts out the whole PEM or raises (disk full, I/O error,
\* interrupt), leaving the file empty or cut short.
WriteKeyFile(op, path, f) ==
    \E fails \in WriteFaults :
        IF fails
          THEN /\ files' = [files EXCEPT ![path] = [NoFile EXCEPT !.kind = "empty"]]
               /\ result' = [op |-> op, out |-> "OSError"]
          ELSE /\ files' = [files EXCEPT ![path] = f]
               /\ result' = [op |-> op, out |-> "ok"]

\* RSA2048.generate / Ed25519.generate: a fresh private key object.
Generate ==
    /\ Len(pairs) < MaxPairs
    /\ Len(objs) < MaxObjs
    /\ \E alg \in Algs :
        /\ pairs' = Append(pairs, alg)
        /\ objs' = Append(objs, [cls |-> PrivClass[alg], pair |-> Len(pairs) + 1])
        /\ result' = [op |-> "generate", out |-> "ok"]
    /\ UNCHANGED files

\* _get_public: the public class holds a public key; the private class
\* returns self.key.public_key().
GetPublic(o) == "public"

\* Fault variant of ExportPrivate (mutation check): the file opened (and
\* truncated) before the PEM is serialized.
ExportPrivateOpenFirst(o, path, pw) ==
    /\ o.cls \notin PublicClasses
    /\ IF pw = ""
         THEN /\ files' = [files EXCEPT ![path] = [kind |-> "empty", pair |-> 0,
                                                   enc |-> NoPass]]
              /\ result' = [op |-> "export_private", out |-> "ValueError"]
         ELSE /\ files' = [files EXCEPT ![path] = [kind |-> "private", pair |-> o.pair,
                                                   enc |-> pw]]
              /\ result' = [op |-> "export_private", out |-> "ok"]

\* export_private(path, passwd) of a private class: the PEM is built
\* first (BestAvailableEncryption refuses an empty password with
\* ValueError), then the file is opened 'wb' and written.
ExportPrivate(o, path, pw) ==
    /\ o.cls \notin PublicClasses
    /\ IF pw = ""
         THEN /\ result' = [op |-> "export_private", out |-> "ValueError"]
              /\ UNCHANGED files
         ELSE WriteKeyFile("export_private", path, [kind |-> "private", pair |-> o.pair,
                                                    enc |-> pw])

\* export_private of a public-only class: self._unsupported raises.
ExportPrivateUnsupported(o) ==
    /\ o.cls \in PublicClasses
    /\ result' = [op |-> "export_private", out |-> UsageError[AlgOf(o)]]
    /\ UNCHANGED files

ExportPrivateCall ==
    \E i \in DOMAIN objs, path \in Paths, pw \in Passwords \cup {NoPass} :
        /\ \/ ExportPrivate(objs[i], path, pw)
           \/ ExportPrivateUnsupported(objs[i])
        /\ UNCHANGED <<pairs, objs>>

\* export_public(path): the SubjectPublicKeyInfo PEM of _get_public().
ExportPublic ==
    \E i \in DOMAIN objs, path \in Paths :
        /\ WriteKeyFile("export_public", path, [kind |-> GetPublic(objs[i]),
                         pair |-> objs[i].pair, enc |-> NoPass])
        /\ UNCHANGED <<pairs, objs>>

\* Ed25519.create_csr(path): only the private Ed25519 class defines it;
\* elsewhere it is an AttributeError.  It builds the CSR with
\* .sign(self.key, hashes.SHA256(), ...), which cryptography refuses for
\* an Ed25519 key (the algorithm must be None) with ValueError, so the
\* call raises before the file is opened.
CreateCsr ==
    \E i \in DOMAIN objs :
        /\ result' = [op |-> "create_csr",
                      out |-> IF objs[i].cls = "Ed25519" THEN "ValueError" ELSE "AttributeError"]
        /\ UNCHANGED <<pairs, objs, files>>

-----------------------------------------------------------------------------
(* keys.load(path, passwd)                                                 *)

\* What load makes of a file: a key class, "None" for an encrypted private
\* key without a password, or the exception it raises.  A private PEM that
\* does not open with the password is retried as a public key, which fails
\* too (ValueError); a password for a plain key is a TypeError.
LoadOutcome(f, pw) ==
    CASE f.kind = "none"                                  -> "FileNotFoundError"
      [] f.kind = "private" /\ f.enc # NoPass /\ pw = NoPass -> NoKey
      [] f.kind = "private" /\ f.enc # NoPass /\ pw # f.enc  -> "ValueError"
      [] f.kind = "private" /\ f.enc = NoPass /\ pw # NoPass -> "TypeError"
      [] f.kind = "private"                               -> PrivClass[pairs[f.pair]]
      [] f.kind = "public"                                -> PubClass[pairs[f.pair]]
      [] OTHER                                            -> "ValueError"

LoadKeyFrom(path, pw) ==
    LET out == LoadOutcome(files[path], pw)
    IN  /\ Len(objs) < MaxObjs
        /\ result' = [op |-> "load", out |-> out]
        /\ objs' = IF out \in KeyClasses
                     THEN Append(objs, [cls |-> out, pair |-> files[path].pair])
                     ELSE objs
        /\ UNCHANGED <<pairs, files>>

LoadKey == \E path \in Paths, pw \in Passwords \cup {NoPass} : LoadKeyFrom(path, pw)

KInit ==
    /\ pairs = <<>>
    /\ objs = <<>>
    /\ files = [p \in Paths |-> NoFile]
    /\ result = [op |-> "", out |-> ""]

KNext == Generate \/ ExportPrivateCall \/ ExportPublic \/ CreateCsr \/ LoadKey

KSpec == KInit /\ [][KNext]_kvars

-----------------------------------------------------------------------------
(* Properties                                                              *)

FileKinds == {"none", "empty", "private", "public"}

KTypeOK ==
    /\ pairs \in Seq(Algs)
    /\ \A i \in DOMAIN objs :
          /\ objs[i].cls \in KeyClasses
          /\ objs[i].pair \in DOMAIN pairs
    /\ \A p \in Paths : files[p].kind \in FileKinds
    /\ result.out \in {"", "ok", NoKey, "ValueError", "TypeError", "AttributeError",
                       "FileNotFoundError", "OSError"} \cup {UsageError[a] : a \in DOMAIN UsageError}
                       \cup KeyClasses

\* An export or create_csr that raises before it writes leaves the file at
\* its path as it was: the PEM is serialized, and its errors raised, before
\* the file is opened for writing.
FailedCallKeepsFiles ==
    [][result'.out \notin {"ok", "OSError"} => files' = files]_kvars

=============================================================================

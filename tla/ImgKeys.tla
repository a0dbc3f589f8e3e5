------------------------------ MODULE ImgKeys ------------------------------
(***************************************************************************)
(* The key classes of imglib/keys (ed25519.py, rsa.py) as the image        *)
(* signer sees them: the length of get_public_bytes(), the declared        *)
(* sig_len(), the length of the signature a private key produces, and      *)
(* which signing method the class defines -- Image.sign probes it with     *)
(* hasattr(key, 'sign').  The public-only classes inherit the public       *)
(* accessors and define neither signing method.  "None" is the absent key. *)
(***************************************************************************)

KeyClasses == {"Ed25519", "Ed25519Public", "RSA2048", "RSA2048Public"}
NoKey == "None"

\* get_public_bytes: Ed25519 Raw encoding is 32 bytes; an RSA-2048 key in
\* PKCS1 DER is SEQUENCE{INTEGER n (257 bytes), INTEGER 65537}, 270 bytes.
PubLen == [Ed25519 |-> 32, Ed25519Public |-> 32,
           RSA2048 |-> 270, RSA2048Public |-> 270]

\* sig_len() of each class.
sig_len == [Ed25519 |-> 64, Ed25519Public |-> 64,
            RSA2048 |-> 256, RSA2048Public |-> 256]

\* Length of what the private key's sign / sign_digest returns: an Ed25519
\* signature is 64 bytes, an RSA-2048 PSS signature the modulus size.
SigOutLen == [Ed25519 |-> 64, RSA2048 |-> 256]

\* RSA2048.sign(payload) hashes the payload itself (PSS, SHA-256).
HasSign == {"RSA2048"}

\* Ed25519.sign_digest(digest) signs the digest bytes it is given.
HasSignDigest == {"Ed25519"}

=============================================================================

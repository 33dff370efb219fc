----------------------------- MODULE Signatures ------------------------------
(***************************************************************************)
(* ecdsa_signature and ecies: signing, recovery and verification, the      *)
(* encodings of a signature, and messages sealed for a public key.  ECDSA  *)
(* itself, the key stream of AES, HMAC-SHA256 and the hash of the key      *)
(* derivation are external.                                                *)
(***************************************************************************)
EXTENDS SecretKeys, FiniteSetsExt

CONSTANT
    AddressOf(_)        \* public_to_address: the end of a public key's Keccak-256

Signature == [r : 0..(Size - 1), s : 0..(Size - 1), v : 0..255]
NoSignature == [r |-> 0, s |-> 0, v |-> 0]
------------------------------------------------------------------------------
(* The library.  Its low s is the lower half; turning s over turns the point over. *)
InverseOf(k) == CHOOSE i \in 1..(Order - 1) : (i * k) % Order = 1

LowHalf == (Order - 1) \div 2

SignRecoverable(k, message, nonce) ==
    LET p == Affine[nonce]
        r == p[1] % Order
        s == (InverseOf(nonce) * (message + r * k)) % Order
        odd == IF s > LowHalf THEN 1 - (p[2] % 2) ELSE p[2] % 2
    IN  {sig \in {[r |-> r, s |-> IF s > LowHalf THEN Order - s ELSE s,
                   rec_id |-> odd + (IF p[1] >= Order THEN 2 ELSE 0)]} : r # 0 /\ s # 0}

(* from_compact and RecoveryId::from_i32 *)
Parsed(sig) == sig.r < Order /\ sig.s < Order /\ sig.v < 4

LibraryRecover(sig, message) ==
    LET x == sig.r + (IF sig.v \div 2 = 1 THEN Order ELSE 0)
        ks == {k \in 1..(Order - 1) : Affine[k][1] = x /\ Affine[k][2] % 2 = sig.v % 2}
    IN  IF sig.r = 0 \/ sig.s = 0
        THEN {}
        ELSE UNION {Multiple(InverseOf(sig.r) * (sig.s * k + (Order - (message % Order)))) : k \in ks}

LibraryVerify(sig, message, p) ==
    /\ sig.r # 0 /\ sig.s # 0 /\ sig.s <= LowHalf
    /\ \E q \in Multiple(InverseOf(sig.s) * (message + sig.r * Log(p))) : q[1] % Order = sig.r
------------------------------------------------------------------------------
Sign(secret, message, nonce) ==
    IF KeyOk(secret)
    THEN {[r |-> g.r, s |-> g.s, v |-> g.rec_id] : g \in SignRecoverable(secret, message, nonce)}
    ELSE {}

Recover(sig, message) == IF Parsed(sig) THEN LibraryRecover(sig, message) ELSE {}

(* The empty set is an error. *)
VerifyPublic(p, sig, message) ==
    IF Parsed(sig) /\ PointOk(p) THEN {LibraryVerify(sig, message, p)} ELSE {}

VerifyAddress(address, sig, message) ==
    {address = AddressOf(p) : p \in Recover(sig, message)}

(* The 65 bytes, with a v that wraps in a release build. *)
IntoElectrum(sig) == [len |-> 65, r |-> sig.r, s |-> sig.s, v |-> (sig.v + 27) % 256]

(* Faulty variant of FromElectrum: 27 itself is taken for too small. *)
FromElectrumAbove(data) ==
    IF data.len # 65 \/ data.v <= 27 THEN NoSignature
    ELSE [r |-> data.r, s |-> data.s, v |-> data.v - 27]

FromElectrum(data) ==
    IF data.len # 65 \/ data.v < 27 THEN NoSignature
    ELSE [r |-> data.r, s |-> data.s, v |-> data.v - 27]

FromRsv(r, s, v) == [r |-> r, s |-> s, v |-> v]

IsLowS(sig) == sig.s <= LowHalf

IsValid(sig) == sig.v <= 1 /\ sig.r < Order /\ sig.r >= 1 /\ sig.s < Order /\ sig.s >= 1
------------------------------------------------------------------------------
(* The two halves of what kdf makes of the agreed secret. *)
Kdf(z) == [ekey |-> <<"enc", z>>, mkey |-> <<"mac", z>>]

(* A byte of a text: its value, and the bytes of key streams it has been combined with. *)
TextByte == [value : 0..255, under : {{}}]

(* encrypt_128_ctr and decrypt_128_ctr: a byte combined twice with the same is as it was. *)
Ctr128(ekey, iv, text) ==
    [i \in DOMAIN text |-> [text[i] EXCEPT !.under = SymDiff(@, {<<ekey, iv, i>>})]]

(* The tag is of the bytes one after another: nothing in it tells where auth_data begins. *)
Mac(mkey, iv, cipher, auth_data) == <<mkey, iv, cipher \o auth_data>>

MetaLen == 1 + 64 + 16 + 32

(* ecies::encrypt, given the random key pair and initialisation vector. *)
Encrypt(p, auth_data, plain, ephemeral, iv) ==
    {LET key == Kdf(z)
         cipher == Ctr128(key.ekey, iv, plain)
     IN  [len |-> MetaLen + Len(plain), version |-> 4, public |-> Affine[ephemeral], iv |-> iv,
          cipher |-> cipher, mac |-> Mac(key.mkey, iv, cipher, auth_data)] :
        z \in Agree(ephemeral, p)}

(* Faulty variant of Decrypt: the tag does not cover the authenticated data. *)
DecryptUnauthenticated(secret, auth_data, e) ==
    IF e.len < MetaLen \/ e.version < 2 \/ e.version > 4
    THEN {}
    ELSE UNION {LET key == Kdf(z)
                IN  IF e.mac[1] = key.mkey THEN {Ctr128(key.ekey, e.iv, e.cipher)} ELSE {} :
                    z \in Agree(secret, e.public)}

(***************************************************************************)
(* ecies::decrypt: without the same key the tag is another.  The slice has *)
(* a first byte: of an empty one the code's look at the version panics.    *)
(***************************************************************************)
Decrypt(secret, auth_data, e) ==
    IF e.len < MetaLen \/ e.version < 2 \/ e.version > 4
    THEN {}
    ELSE UNION {LET key == Kdf(z)
                IN  IF Mac(key.mkey, e.iv, e.cipher, auth_data) = e.mac
                    THEN {Ctr128(key.ekey, e.iv, e.cipher)}
                    ELSE {} :
                    z \in Agree(secret, e.public)}
==============================================================================

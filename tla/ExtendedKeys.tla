---------------------------- MODULE ExtendedKeys -----------------------------
(***************************************************************************)
(* Hierarchical derivation of keys: ExtendedSecret, ExtendedPublic and     *)
(* ExtendedKeyPair.  HMAC-SHA512 and the hash the first chain code comes   *)
(* from are external; they are parameters.  Where the code would panic the *)
(* outcome is "panic".                                                     *)
(***************************************************************************)
EXTENDS SecretKeys

CONSTANTS
    Hmac(_, _),         \* chain code, data -> [key : an H256, code : a chain code]
    SeedHmac(_),        \* the same for the key "Bitcoin seed"
    ChainCode(_),       \* secret -> its first chain code
    HardFrom            \* 2^31, the first index that is hard

(* Derivation::from(index) *)
Soft(index) == index < HardFrom

(* The 33 bytes before the index: a compressed point, or 0 and the secret. *)
Compressed(p) == <<2 + (p[2] % 2), p[1]>>
Padded(s) == <<0, s>>

Ok(v) == [status |-> "ok", key |-> v.key, code |-> v.code]
Error(why) == [status |-> why]

(* Faulty variant of PrivateAdd: the sum is not reduced. *)
PrivateAddUnreduced(hmac_key, private) == (hmac_key + private) % Size

(* The sum does not overflow, whatever the 256 bits of the HMAC are. *)
PrivateAdd(hmac_key, private) == (hmac_key + private) % Order

HmacPair(data, private_key, code) ==
    LET i_512 == Hmac(code, data)
    IN  Ok([key |-> PrivateAdd(i_512.key, private_key), code |-> i_512.code])

PrivateSoft(private_key, code, index) ==
    IF KeyOk(private_key)
    THEN HmacPair(Compressed(Affine[private_key]) \o <<index>>, private_key, code)
    ELSE Error("panic")

PrivateHard(private_key, code, index) == HmacPair(Padded(private_key) \o <<index>>, private_key, code)

(* ExtendedSecret::derive *)
DeriveSecret(x, index) ==
    IF Soft(index) THEN PrivateSoft(x.key, x.code, index) ELSE PrivateHard(x.key, x.code, index)

(* ExtendedPublic::derive *)
DerivePublic(x, index) ==
    LET i_512 == Hmac(x.code, Compressed(x.key) \o <<index>>)
        sum == UNION {Combine(p, x.key) : p \in Multiple(i_512.key)}
    IN  CASE ~Soft(index) -> Error("InvalidHardenedUse")
          [] Soft(index) /\ ~PointOk(x.key) -> Error("InvalidPoint")
          [] Soft(index) /\ PointOk(x.key) /\ i_512.key >= Order -> Error("MissingIndex")
          [] Soft(index) /\ PointOk(x.key) /\ i_512.key < Order ->
                IF sum = {}
                THEN Error("panic")
                ELSE Ok([key |-> CHOOSE p \in sum : TRUE, code |-> i_512.code])

(* ExtendedPublic::from_secret *)
PublicOf(x) == IF KeyOk(x.key) THEN Ok([key |-> Affine[x.key], code |-> x.code]) ELSE Error("InvalidPoint")

(* ExtendedSecret::new, and with_seed, which imports the master key. *)
NewExtended(s) == Ok([key |-> s, code |-> ChainCode(s)])
FromSeed(seed) == IF KeyOk(SeedHmac(seed).key) THEN Ok(SeedHmac(seed)) ELSE Error("InvalidSeed")
==============================================================================

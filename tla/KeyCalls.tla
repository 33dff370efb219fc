------------------------------ MODULE KeyCalls -------------------------------
(***************************************************************************)
(* Uses of publickey: calculations with secrets and public keys, an owner  *)
(* who derives secret keys along a path while a watcher who only has the   *)
(* public key follows it, signatures and sealed messages.                  *)
(***************************************************************************)
EXTENDS ExtendedKeys, Signatures

CONSTANTS
    Indices,            \* indices to derive with, soft and hard
    Seeds,              \* seeds of key pairs
    Messages,           \* messages to sign
    Exponents,          \* exponents of pow
    Auths,              \* authenticated data
    Plains              \* messages to seal

ASSUME CallsAssumption ==
    /\ Messages \subseteq Nat
    /\ Exponents \subseteq Nat
    /\ Auths \subseteq Seq(TextByte) /\ Plains \subseteq Seq(TextByte)

VARIABLES
    owner,              \* the owner's ExtendedSecret, or why there is none
    watcher,            \* the watcher's ExtendedPublic, or why there is none
    call                \* the last calculation, signature or sealed message

vars == <<owner, watcher, call>>

NoCall == [op |-> "none"]

Init ==
    /\ owner = Error("none")
    /\ watcher = Error("none")
    /\ call = NoCall

(* ExtendedKeyPair::new, which expects a valid secret. *)
NewPair(s) ==
    /\ KeyOk(s)
    /\ owner' = NewExtended(s)
    /\ watcher' = PublicOf(owner')
    /\ call' = NoCall

(* ExtendedKeyPair::with_seed *)
WithSeed(seed) ==
    /\ owner' = FromSeed(seed)
    /\ watcher' = IF owner'.status = "ok" THEN PublicOf(owner') ELSE Error("none")
    /\ call' = NoCall

(* Both derive with the same index; a watcher that gets an error is out of step from there on. *)
DeriveBoth(index) ==
    /\ owner.status = "ok"
    /\ owner' = DeriveSecret(owner, index)
    /\ watcher' = IF watcher.status = "ok" THEN DerivePublic(watcher, index) ELSE watcher
    /\ call' = NoCall

(* ExtendedKeyPair::derive, which gives the watcher the new public key. *)
DerivePair(index) ==
    /\ owner.status = "ok"
    /\ owner' = DeriveSecret(owner, index)
    /\ watcher' = IF owner'.status = "ok" THEN PublicOf(owner') ELSE owner'
    /\ call' = NoCall

(* The calculations, each with what it makes of the public keys of valid secrets. *)
Binary(op, s, o) ==
    CASE op = "add" -> SecretAdd(s, o)
      [] op = "sub" -> SecretSub(s, o)
      [] op = "mul" -> SecretMul(s, o)
      [] op = "neg" -> SecretNeg(s)
      [] op = "dec" -> SecretDec(s)

BinaryPublic(op, s, o) ==
    CASE op = "add" -> PublicAdd(Affine[s], Affine[o])
      [] op = "sub" -> PublicSub(Affine[s], Affine[o])
      [] op = "mul" -> PublicMulSecret(Affine[s], o)
      [] op = "neg" -> PublicNegate(Affine[s])
      [] op = "dec" -> PublicSub(Affine[s], GenerationPoint)

Calculate(op, s, o) ==
    /\ call' = [op |-> op, s |-> s, o |-> o, out |-> Binary(op, s, o),
                pub |-> IF KeyOk(s) /\ KeyOk(o) THEN {BinaryPublic(op, s, o)} ELSE {}]
    /\ UNCHANGED <<owner, watcher>>

CalculatePow(s, e) ==
    /\ call' = [op |-> "pow", s |-> s, o |-> e, out |-> SecretPow(s, e), pub |-> {}]
    /\ UNCHANGED <<owner, watcher>>

AgreeOn(s, o) ==
    /\ KeyOk(o)
    /\ call' = [op |-> "agree", s |-> s, o |-> o, out |-> Agree(s, Affine[o])]
    /\ UNCHANGED <<owner, watcher>>

SignMessage(s, message, nonce) ==
    /\ \E sig \in Sign(s, message, nonce) :
          call' = [op |-> "sign", s |-> s, message |-> message, sig |-> sig]
    /\ UNCHANGED <<owner, watcher>>

SealMessage(s, ephemeral, auth, plain) ==
    /\ \E e \in Encrypt(Affine[s], auth, plain, ephemeral, 0) :
          call' = [op |-> "seal", s |-> s, auth |-> auth, plain |-> plain, sealed |-> e]
    /\ UNCHANGED <<owner, watcher>>

Derive ==
    \/ \E s \in Secrets : NewPair(s)
    \/ \E seed \in Seeds : WithSeed(seed)
    \/ \E index \in Indices : DeriveBoth(index) \/ DerivePair(index)

(* Calls do not depend on derived keys or on one another: each is made in the initial state. *)
Use ==
    /\ owner = Error("none")
    /\ call = NoCall
    /\ \/ \E op \in {"add", "sub", "mul", "neg", "dec"}, s, o \in Secrets : Calculate(op, s, o)
       \/ \E s \in Secrets, e \in Exponents : CalculatePow(s, e)
       \/ \E s, o \in Secrets : AgreeOn(s, o)
       \/ \E s \in Secrets, message \in Messages, nonce \in 1..(Order - 1) :
             SignMessage(s, message, nonce)
       \/ \E s, ephemeral \in 1..(Order - 1), auth \in Auths, plain \in Plains :
             SealMessage(s, ephemeral, auth, plain)

Next == Derive \/ Use

Spec == Init /\ [][Next]_vars
------------------------------------------------------------------------------
(* A power, multiplied out and not reduced. *)
Power(s, n) ==
    LET power[i \in 0..n] == IF i = 0 THEN 1 ELSE power[i - 1] * s
    IN  power[n]

(* What the operation is to be modulo the order of the curve. *)
Expected(op, s, o) ==
    CASE op = "add" -> (s + o) % Order
      [] op = "sub" -> (s + Order - o) % Order
      [] op = "mul" -> (s * o) % Order
      [] op = "neg" -> (Order - s) % Order
      [] op = "dec" -> (s + Order - 1) % Order
      [] op = "pow" -> IF s = 0 THEN 0 ELSE Power(s, o) % Order

Unary(op) == op \in {"neg", "dec", "pow"}

(* A sum that is zero although neither part is. *)
Cancels(op, s, o) ==
    /\ op \in {"add", "sub", "dec"}
    /\ s # 0
    /\ op # "dec" => o # 0
    /\ Expected(op, s, o) = 0

(***************************************************************************)
(* The operations on secrets are those of the field, zero included, but    *)
(* for sums that become zero, which are errors; an error leaves the secret *)
(* as it was unless an invalid key was subtracted from zero; and the same  *)
(* operation on the public keys succeeds or fails alike and gives the      *)
(* public key of the result.                                               *)
(***************************************************************************)
SecretMathExact ==
    call.op \in {"add", "sub", "mul", "neg", "dec", "pow"} =>
        LET s == call.s  o == call.o
            valid == (s = 0 \/ KeyOk(s)) /\ (Unary(call.op) \/ o = 0 \/ KeyOk(o))
        IN  /\ valid =>
                  IF Cancels(call.op, s, o)
                  THEN call.out = Failed(s)
                  ELSE call.out = Done(Expected(call.op, s, o))
            /\ ~call.out.ok => call.out.self = s \/ (call.op = "sub" /\ s = 0 /\ ~KeyOk(o))
            /\ \A pub \in call.pub :
                  /\ pub.ok <=> call.out.ok
                  /\ pub.ok => {pub.self} = FromSecret(call.out.self)

(***************************************************************************)
(* As long as the watcher has not been told of an error, the public key it *)
(* derived along the path is that of the secret the owner derived, and     *)
(* their chain codes are the same.                                         *)
(***************************************************************************)
DerivationCommutes ==
    watcher.status = "ok" =>
        /\ owner.status = "ok"
        /\ FromSecret(owner.key) = {watcher.key}
        /\ watcher.code = owner.code

(***************************************************************************)
(* A signature is low, its signer is recovered from it, also after the     *)
(* conversion to Electrum's notation and back, and verify_public and       *)
(* verify_address accept it; is_valid rejects it only for the recovery ids *)
(* of the points whose x is not below the order.                           *)
(***************************************************************************)
SignaturesAccepted ==
    call.op = "sign" =>
        LET p == Affine[call.s]
            sig == FromElectrum(IntoElectrum(call.sig))
        IN  /\ sig = FromRsv(call.sig.r, call.sig.s, call.sig.v)
            /\ IsLowS(sig)
            /\ IsValid(sig) <=> sig.v < 2
            /\ Recover(sig, call.message) = {p}
            /\ VerifyPublic(p, sig, call.message) = {TRUE}
            /\ \A k \in 1..(Order - 1) :
                  VerifyAddress(AddressOf(Affine[k]), sig, call.message)
                    = {AddressOf(Affine[k]) = AddressOf(p)}

(***************************************************************************)
(* A sealed message opens to what was sealed, with the same authenticated  *)
(* data and the secret of the public key it was sealed for, or the         *)
(* negation of that secret, which agrees on the same x coordinate; and     *)
(* with nothing else.  Both sides of ecdh::agree get the same secret.      *)
(***************************************************************************)
SealedOpensForOwner ==
    /\ call.op = "seal" =>
          \A s \in Secrets, auth \in Auths :
             Decrypt(s, auth, call.sealed) =
                IF s \in {call.s, Order - call.s} /\ auth = call.auth THEN {call.plain} ELSE {}
    /\ call.op = "agree" /\ KeyOk(call.s) => call.out = Agree(call.o, Affine[call.s])
==============================================================================

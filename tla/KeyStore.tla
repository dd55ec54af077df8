------------------------------- MODULE KeyStore -------------------------------
(***************************************************************************)
(* The device identities of core/crypto: one in-memory StubKeyStore in     *)
(* each of the two processes.  An identity is its public key; the stub     *)
(* makes it from an 8-bit counter that starts at 1 in every process, so    *)
(* devices that generated as often have the same identity, and after 256   *)
(* calls old ones come back.                                               *)
(***************************************************************************)
EXTENDS Naturals

CONSTANTS
    Keys,       \* static public keys
    Zero,       \* the key of a PublicKey{} nobody filled in; no identity is stored
    Seeds,      \* values of seed_, 256 in the code
    Derived,    \* the public key made from each seed
    Imported    \* identities made elsewhere

ASSUME KeysAssumption == Zero \notin Keys
ASSUME SeedsAssumption ==
    Seeds \in Nat \ {0} /\ Derived \in [0..(Seeds - 1) -> Keys] /\ Imported \subseteq Keys

Ends == {"initiator", "responder"}

VARIABLES
    stored,     \* identity_, Zero while have_ is false
    seed        \* seed_

keystore == <<stored, seed>>

KeyStoreInit == stored = [e \in Ends |-> Zero] /\ seed = [e \in Ends |-> 1 % Seeds]

makeStubIdentity(s) == Derived[s]

generate(e) ==
    /\ stored' = [stored EXCEPT ![e] = makeStubIdentity(seed[e])]
    /\ seed' = [seed EXCEPT ![e] = (@ + 1) % Seeds]

\* load(): the identity there is, or none.
load(e) == stored[e]

\* An identity that is there is kept.
loadOrGenerate(e) == load(e) = Zero /\ generate(e)

store(e, key) == stored' = [stored EXCEPT ![e] = key] /\ UNCHANGED seed

=============================================================================

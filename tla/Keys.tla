-------------------------------- MODULE Keys --------------------------------
(***************************************************************************)
(* From a derivation path to an address: src/hathor.c and its three users, *)
(* verify_change, GET_ADDRESS and GET_XPUB.                                *)
(*                                                                         *)
(* Derivation and hashing belong to the operating system.  A public key is *)
(* its encoding W: a first byte and the point, whose y is odd or even.  A  *)
(* hash is the record of what was hashed, so that two of them are equal    *)
(* when the hashed bytes are.                                              *)
(***************************************************************************)
EXTENDS Integers, Sequences, SequencesExt

CONSTANTS
    PointOf(_),     \* the point [x, odd] that a path derives
    Derivable(_)    \* the operating system derives a key for this path

Uncompressed == 4
VersionByte == 40   \* P2PKH_VERSION_BYTE

\* derive_private_key and init_public_key
PublicKey(path) == [first |-> Uncompressed, point |-> PointOf(path)]

\* compress_public_key overwrites the first byte and leaves y where it is.
Compressed(key) == [key EXCEPT !.first = IF key.point.odd THEN 3 ELSE 2]

\* hash160 of the first 33 bytes: the first one and x.
Hash160(key) == [hash160 |-> <<key.first, key.point.x>>]

AddressFromPubkeyHash(hash) ==
    [version |-> VersionByte,
     pubkey_hash |-> hash,
     checksum |-> [sha256d |-> <<VersionByte, hash>>]]

AddressFromPubkey(key) == AddressFromPubkeyHash(Hash160(Compressed(key)))

-----------------------------------------------------------------------------
\* verify_change throws where no key can be derived.
VerifyChange_Uncompressed(path, pubkey_hash) ==
    Derivable(path) /\ Hash160(PublicKey(path)) = pubkey_hash
VerifyChange(path, pubkey_hash) ==
    Derivable(path) /\ Hash160(Compressed(PublicKey(path))) = pubkey_hash

\* GET_ADDRESS: the address on the screen.  Nothing but SW_OK is answered.
ShownAddress(path) == AddressFromPubkey(PublicKey(path))

\* The address on the screen of an output.
OutputAddress(pubkey_hash) == AddressFromPubkeyHash(pubkey_hash)

\* GET_XPUB: the key in the answer, copied before the key of the parent path takes
\* its place and is compressed, and the hash whose beginning is the fingerprint.
AnsweredKey(path) == PublicKey(path)
Fingerprint(path) == Hash160(Compressed(PublicKey(Front(path))))

=============================================================================

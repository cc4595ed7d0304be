------------------------------- MODULE Crypto -------------------------------
(***************************************************************************)
(* What crypto.cpp does to lengths.  A sealed file is the sequence         *)
(*        salt  iv  ciphertext  tag                                        *)
(* and opens only with the sender's passphrase and only when every byte of *)
(* it is there: AES-GCM is taken to be sound.                              *)
(***************************************************************************)
EXTENDS Numbers

CONSTANTS SALT_LEN, AES_IV_LEN, AES_TAG_LEN

ASSUME CryptoAssumption == /\ SALT_LEN \in Nat
                           /\ AES_IV_LEN \in Nat
                           /\ AES_TAG_LEN \in Nat

(* The passphrase is a std::string; the empty one means no encryption. *)
NoPass == ""

(* EVP_EncryptUpdate takes the length as an int.  OpenSSL rejects a        *)
(* negative one, which encrypt() turns into an exception.                  *)
EncryptThrows(len) == ToInt(len) < 0

(* serialize_encrypted(encrypt(plaintext)).size() *)
SealedLen(len) == SALT_LEN + AES_IV_LEN + ToInt(len) + AES_TAG_LEN

(* The length of what deserialize_encrypted() and decrypt() return for n   *)
(* received bytes; 0, the empty vector, is also how decrypt() says that it *)
(* failed.                                                                 *)
OpenedLen(n, authentic) ==
  IF /\ n >= SALT_LEN + AES_IV_LEN
     /\ n - (SALT_LEN + AES_IV_LEN) >= AES_TAG_LEN
     /\ authentic
  THEN n - (SALT_LEN + AES_IV_LEN) - AES_TAG_LEN
  ELSE 0
=============================================================================

------------------------------ MODULE ZipCrypto ------------------------------
(***************************************************************************)
(* The ZipCrypto stream cipher of zipcrypto.rs: an Encryptor on the way to *)
(* a sink that may fail within any write, then a Decryptor on what got     *)
(* there, which is read in pieces of any size.                             *)
(*                                                                         *)
(* The three keys are what the cipher was updated with, from the password  *)
(* on: two different histories are taken to have different keys.  A byte   *)
(* of ciphertext is a plain byte and the keys it was encrypted under.      *)
(***************************************************************************)
EXTENDS Integers, Sequences

CONSTANTS
  Plain,           (* plain bytes                                          *)
  Passwords,       (* passwords, sequences of plain bytes                  *)
  HeaderLen,       (* HEADER_LEN: 12                                       *)
  Chunk,           (* CHUNK: 8192                                          *)
  MaxWrite,        (* bound: length of a buffer written                    *)
  MaxBody,         (* bound: bytes encrypted, sent or not                  *)
  MaxRead          (* bound: length of a buffer read into                  *)

ASSUME CipherAssumption ==
  /\ Passwords \subseteq Seq(Plain)
  /\ HeaderLen \in Nat \ {0} /\ Chunk \in Nat \ {0}
  /\ MaxWrite \in Nat /\ MaxBody \in Nat /\ MaxRead \in Nat \ {0}

VARIABLES
  crypto,           (* "new", "writing", "reading" or "done"                *)
  password,        (* the Encryptor's                                      *)
  keys,            (* Cipher.keys, of the one who works                    *)
  sink,            (* ciphertext that got there                            *)
  position,        (* of the reader in it                                  *)
  check_byte,      (* Decryptor.check_byte, if there is one                *)
  tried,           (* history: the password of the Decryptor, if any       *)
  sent,            (* history: the plain bytes of the body in the sink     *)
  failed,          (* history: has a write failed?                         *)
  in_step,         (* history: bytes sent until then                       *)
  accepted,        (* history: bytes of the writes that succeeded          *)
  got              (* history: what the reader made of the body            *)

cipherVars ==
  <<crypto, password, keys, sink, position, check_byte, tried,
    sent, failed, in_step, accepted, got>>

\* Stands for any wrong byte.
Garbled == -1

CHECK == 1         \* the check byte: high byte of the DOS time

\* Cipher::encrypt: the bytes, and the keys after them.
Encrypted(ks, plain) ==
  [i \in DOMAIN plain |-> [plain |-> plain[i], keys |-> ks \o SubSeq(plain, 1, i - 1)]]

\* One byte of ciphertext under some keys.
Deciphered(ks, byte) == IF byte.keys = ks THEN byte.plain ELSE Garbled

\* Mutant: the keys go on with the ciphertext.
DecryptedByCipher(ks, cipher) ==
  LET after[n \in 0..Len(cipher)] ==
        IF n = 0 THEN <<>>
        ELSE Append(after[n - 1],
                    Deciphered(ks \o [i \in 1..(n - 1) |-> Garbled], cipher[n]))
  IN  after[Len(cipher)]

\* Cipher::decrypt: each plain byte goes into the keys of the next.
Decrypted(ks, cipher) ==
  LET after[n \in 0..Len(cipher)] ==
        IF n = 0 THEN <<>>
        ELSE Append(after[n - 1], Deciphered(ks \o after[n - 1], cipher[n]))
  IN  after[Len(cipher)]

CipherHeader == [i \in 1..HeaderLen |-> IF i = HeaderLen THEN CHECK ELSE 0]

-----------------------------------------------------------------------------
(* Encryptor.                                                              *)

CipherInit ==
  /\ crypto = "new" /\ password \in Passwords /\ keys = <<>>
  /\ sink = <<>> /\ position = 0 /\ check_byte = {} /\ tried = {}
  /\ sent = <<>> /\ failed = FALSE /\ in_step = 0 /\ accepted = <<>> /\ got = <<>>

\* Encryptor::new; if the header cannot be written there is no Encryptor.
NewEncryptor ==
  /\ crypto = "new"
  /\ \E k \in 0..HeaderLen :
       /\ sink' = SubSeq(Encrypted(password, CipherHeader), 1, k)
       /\ crypto' = IF k = HeaderLen THEN "writing" ELSE "done"
  /\ keys' = password \o CipherHeader
  /\ UNCHANGED <<password, position, check_byte, tried,
    sent, failed, in_step, accepted, got>>

\* What is encrypted when the writer fails after k bytes of a buffer: all
\* chunks before, and the whole chunk in which it fails.
UpToChunk(k, n) == LET end == (k \div Chunk + 1) * Chunk IN IF end < n THEN end ELSE n

\* Encryptor::write, which tells its caller of a failure of the sink, but
\* not of how much went through.
EncryptorWrite(buf) ==
  /\ crypto = "writing"
  /\ Len(keys) + Len(buf) <= Len(password) + HeaderLen + MaxBody
  /\ \E k \in 0..Len(buf) :
       /\ sink' = sink \o SubSeq(Encrypted(keys, buf), 1, k)
       /\ sent' = sent \o SubSeq(buf, 1, k)
       /\ IF k = Len(buf)
          THEN accepted' = accepted \o buf /\ keys' = keys \o buf
          ELSE UNCHANGED accepted /\ keys' = keys \o SubSeq(buf, 1, UpToChunk(k, Len(buf)))
       /\ in_step' = IF failed THEN in_step ELSE in_step + k
       /\ failed' = (failed \/ k < Len(buf))
  /\ UNCHANGED <<crypto, password, position, check_byte, tried, got>>

-----------------------------------------------------------------------------
(* Decryptor.                                                              *)

\* Decryptor::new: read_exact of the header.
NewDecryptor(p) ==
  /\ crypto \in {"writing", "done"} /\ position = 0
  /\ IF Len(sink) < HeaderLen
     THEN crypto' = "short" /\ UNCHANGED <<keys, position, check_byte>>
     ELSE LET header == Decrypted(p, SubSeq(sink, 1, HeaderLen))
          IN  /\ crypto' = "reading" /\ position' = HeaderLen
              /\ keys' = p \o header /\ check_byte' = {header[HeaderLen]}
  /\ tried' = {p}
  /\ UNCHANGED <<password, sink, sent, failed, in_step, accepted, got>>

\* Mutant: the whole buffer is decrypted, not only what was read.
DecryptorReadWhole(n) ==
  /\ crypto = "reading" /\ n > 0
  /\ \E k \in 0..n :
       /\ position + k <= Len(sink) /\ (k = 0 => position = Len(sink))
       /\ LET plain == Decrypted(keys, SubSeq(sink, position + 1, position + k))
          IN  /\ got' = got \o plain /\ position' = position + k
              /\ keys' = keys \o plain \o [i \in 1..(n - k) |-> Garbled]
  /\ UNCHANGED <<crypto, password, sink, check_byte, tried, sent, failed, in_step,
                 accepted>>

\* Decryptor::read with a buffer of n bytes: any number of bytes that the
\* reader below delivers, none only at the end.
DecryptorRead(n) ==
  /\ crypto = "reading" /\ n > 0
  /\ \E k \in 0..n :
       /\ position + k <= Len(sink) /\ (k = 0 => position = Len(sink))
       /\ LET plain == Decrypted(keys, SubSeq(sink, position + 1, position + k))
          IN  /\ got' = got \o plain /\ position' = position + k
              /\ keys' = keys \o plain
  /\ UNCHANGED <<crypto, password, sink, check_byte, tried, sent, failed, in_step,
                 accepted>>

CipherNext ==
  \/ NewEncryptor
  \/ \E n \in 1..MaxWrite : \E buf \in [1..n -> Plain] : EncryptorWrite(buf)
  \/ \E p \in Passwords : NewDecryptor(p)
  \/ \E n \in 1..MaxRead : DecryptorRead(n)

CipherSpec == CipherInit /\ [][CipherNext]_cipherVars

-----------------------------------------------------------------------------
(* Properties.                                                             *)

(***************************************************************************)
(* Encryptor and Decryptor: with the right password the check byte is      *)
(* right and the reader has, in whatever pieces, the bytes the writer was  *)
(* given, all of those it accepted; if a write failed, at least all that   *)
(* reached the sink until then, though what is written after it is lost.   *)
(***************************************************************************)
DecryptsWritten ==
  tried = {password} /\ crypto = "reading" =>
    /\ check_byte = {CHECK}
    /\ \A i \in DOMAIN got : i <= in_step => got[i] = sent[i]
    /\ position = Len(sink) => Len(got) = Len(sent)
    /\ ~failed => sent = accepted /\ in_step = Len(sent)

=============================================================================

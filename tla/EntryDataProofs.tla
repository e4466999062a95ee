-------------------------- MODULE EntryDataProofs --------------------------
(***************************************************************************)
(* Proofs about the bytes of an entry: that they are encrypted and come    *)
(* back, that their checksum is that of their pieces, and that no two      *)
(* entries are extracted from the same ones.                               *)
(***************************************************************************)
EXTENDS Crc, ZipCrypto, Extraction, EntryHeaderProofs

-----------------------------------------------------------------------------
(* The cipher.                                                             *)

LEMMA DecipheredByte ==
  ASSUME NEW V, Garbled \in V, NEW ks, NEW byte \in [plain : V, keys : Seq(V)]
  PROVE  Deciphered(ks, byte) \in V
BY DEF Deciphered

\* The bytes up to n, deciphered one after the other.
Deciphers(ks, cipher, n, plain) ==
  /\ Len(plain) = n
  /\ \A i \in 1..n : plain[i] = Deciphered(ks \o SubSeq(plain, 1, i - 1), cipher[i])

LEMMA DeciphersNext ==
  ASSUME NEW V, NEW ks \in Seq(V), NEW cipher, NEW n \in Nat, NEW plain \in Seq(V),
         Deciphers(ks, cipher, n, plain), NEW b \in V,
         b = Deciphered(ks \o plain, cipher[n + 1])
  PROVE  Deciphers(ks, cipher, n + 1, Append(plain, b))
<1>1. Len(plain) = n /\ Len(Append(plain, b)) = n + 1 /\ Append(plain, b) \in Seq(V)
  BY DEF Deciphers
<1>2. ASSUME NEW i \in 1..(n + 1)
      PROVE  SubSeq(Append(plain, b), 1, i - 1) = SubSeq(plain, 1, i - 1)
  BY <1>1
<1>3. SubSeq(plain, 1, n) = plain
  BY <1>1
<1>4. ASSUME NEW i \in 1..(n + 1)
      PROVE  Append(plain, b)[i]
               = Deciphered(ks \o SubSeq(Append(plain, b), 1, i - 1), cipher[i])
  <2>1. CASE i = n + 1
    <3>1. Append(plain, b)[i] = b /\ i - 1 = n
      BY <1>1, <2>1
    <3> QED
      BY <1>2, <1>3, <2>1, <3>1
  <2>2. CASE i # n + 1
    <3>1. i \in 1..n
      BY <2>2
    <3>2. Append(plain, b)[i] = plain[i]
      BY <1>1, <3>1
    <3> QED
      BY <1>2, <3>1, <3>2 DEF Deciphers
  <2> QED
    BY <2>1, <2>2
<1> QED
  BY <1>1, <1>4 DEF Deciphers

\* What Cipher::decrypt gives: as many bytes, each deciphered with the keys
\* and the bytes before it.
LEMMA DecryptedBytes ==
  ASSUME NEW V, NEW ks \in Seq(V), NEW cipher \in Seq([plain : V, keys : Seq(V)]),
         Garbled \in V
  PROVE  /\ Decrypted(ks, cipher) \in Seq(V)
         /\ Deciphers(ks, cipher, Len(cipher), Decrypted(ks, cipher))
<1>1. PICK N \in Nat : N = Len(cipher)
  OBVIOUS
<1>2. PICK step : step = [a \in (1..N) \X Seq(V) |->
                            Append(a[2], Deciphered(ks \o a[2], cipher[a[1]]))]
  OBVIOUS
<1>a. ASSUME NEW n \in 1..N, NEW s \in Seq(V) PROVE Deciphered(ks \o s, cipher[n]) \in V
  <2>1. cipher[n] \in [plain : V, keys : Seq(V)]
    BY <1>1, ElementOfSeq
  <2> QED
    BY <2>1, DecipheredByte
<1>3. step \in [(1..N) \X Seq(V) -> Seq(V)]
  BY <1>2, <1>a
<1>4. PICK f \in [0..N -> Seq(V)] : Runs(f, <<>>, step, N)
  <2>1. <<>> \in Seq(V)
    OBVIOUS
  <2> HIDE <1>2
  <2> QED
  BY <1>3, <2>1, Recursion
<1>5. ASSUME NEW n \in 1..N PROVE f[n] = Append(f[n - 1], Deciphered(ks \o f[n - 1], cipher[n]))
  <2>1. n - 1 \in 0..N
    OBVIOUS
  <2>2. f[n - 1] \in Seq(V)
    BY <2>1
  <2>3. f[n] = step[<<n, f[n - 1]>>]
    BY <1>4 DEF Runs
  <2> QED
    BY <1>2, <2>2, <2>3
<1>6. f = [n \in 0..N |->
              IF n = 0 THEN <<>>
              ELSE Append(f[n - 1], Deciphered(ks \o f[n - 1], cipher[n]))]
  <2>1. f[0] = <<>>
    BY <1>4 DEF Runs
  <2>2. \A n \in 0..N : n # 0 => n \in 1..N
    OBVIOUS
  <2> QED
    BY <1>5, <2>1, <2>2
<1>7. PICK g : /\ g = [n \in 0..N |->
                         IF n = 0 THEN <<>>
                         ELSE Append(g[n - 1], Deciphered(ks \o g[n - 1], cipher[n]))]
               /\ Decrypted(ks, cipher) = g[N]
  BY <1>1, <1>6 DEF Decrypted
<1>b. \A n \in 0..N :
        g[n] = IF n = 0 THEN <<>>
               ELSE Append(g[n - 1], Deciphered(ks \o g[n - 1], cipher[n]))
  BY <1>7, Zenon
<1>c. g[0] = <<>>
  BY <1>b
<1>d. ASSUME NEW n \in 1..N
      PROVE  g[n] = Append(g[n - 1], Deciphered(ks \o g[n - 1], cipher[n]))
  <2>1. n \in 0..N /\ n # 0
    OBVIOUS
  <2> QED
    BY <1>b, <2>1, Zenon
<1> DEFINE S == {n \in 0..N : g[n] \in Seq(V) /\ Deciphers(ks, cipher, n, g[n])}
<1>8. 0 \in S
  <2>1. <<>> \in Seq(V) /\ Deciphers(ks, cipher, 0, <<>>)
    BY DEF Deciphers
  <2>2. 0 \in 0..N
    OBVIOUS
  <2> QED
    BY <1>c, <2>1, <2>2, Zenon
<1>9. ASSUME NEW n \in 1..N, n - 1 \in S PROVE n \in S
  <2>1. PICK m \in 0..N : m = n - 1 /\ m + 1 = n /\ m \in Nat
    OBVIOUS
  <2>2. PICK b \in V : b = Deciphered(ks \o g[m], cipher[n])
    BY <1>9, <1>a, <2>1
  <2>3. g[n] = Append(g[m], b)
    BY <1>d, <2>1, <2>2
  <2>4. g[n] \in Seq(V)
    BY <1>9, <2>1, <2>3
  <2>5. Deciphers(ks, cipher, m + 1, Append(g[m], b))
    BY <1>9, <2>1, <2>2, DeciphersNext
  <2>6. n \in 0..N
    OBVIOUS
  <2>7. Deciphers(ks, cipher, n, g[n])
    BY <2>1, <2>3, <2>5, Zenon
  <2> QED
    BY <2>4, <2>6, <2>7, Zenon
<1> HIDE DEF S
<1>10. 0..N \subseteq S
  BY <1>8, <1>9, StepByStep
<1>11. N \in S
  BY <1>10
<1> QED
  BY <1>1, <1>7, <1>11 DEF S

-----------------------------------------------------------------------------

\* The first m bytes of a ciphertext are those of plain, under these keys.
Enciphers(ks, plain, cipher, m) ==
  \A i \in 1..m : cipher[i].plain = plain[i] /\ cipher[i].keys = ks \o SubSeq(plain, 1, i - 1)

Restores(ks, plain, cipher, m) ==
  \A i \in 1..m : Decrypted(ks, cipher)[i] = plain[i]

LEMMA DecryptedIsPlain ==
  ASSUME NEW V, Garbled \in V, NEW ks \in Seq(V), NEW plain \in Seq(V),
         NEW cipher \in Seq([plain : V, keys : Seq(V)]),
         NEW m \in Nat, m <= Len(plain), m <= Len(cipher),
         Enciphers(ks, plain, cipher, m)
  PROVE  Restores(ks, plain, cipher, m)
<1>1. PICK d \in Seq(V) : d = Decrypted(ks, cipher) /\ Deciphers(ks, cipher, Len(cipher), d)
  BY DecryptedBytes
<1>2. Len(d) = Len(cipher)
  BY <1>1 DEF Deciphers
<1> DEFINE S == {n \in 0..m : \A i \in 1..n : d[i] = plain[i]}
<1>3. 0 \in S
  OBVIOUS
<1>4. ASSUME NEW n \in 1..m, n - 1 \in S PROVE n \in S
  <2>1. \A i \in 1..(n - 1) : d[i] = plain[i]
    BY <1>4
  <2>2. SubSeq(d, 1, n - 1) = SubSeq(plain, 1, n - 1)
    BY <1>2, <2>1, FrontsEqual
  <2>3. n \in 1..Len(cipher)
    OBVIOUS
  <2>4. d[n] = Deciphered(ks \o SubSeq(d, 1, n - 1), cipher[n])
    BY <1>1, <2>3 DEF Deciphers
  <2>5. d[n] = plain[n]
    BY <2>2, <2>4 DEF Deciphered, Enciphers
  <2> QED
    BY <2>1, <2>5
<1> HIDE DEF S
<1>5. 0..m \subseteq S
  BY <1>3, <1>4, StepByStep
<1>6. m \in S
  BY <1>5
<1> QED
  BY <1>1, <1>6 DEF S, Restores

-----------------------------------------------------------------------------

AnyByte == Plain \cup {0, CHECK, Garbled}
CipherByte == [plain : AnyByte, keys : Seq(AnyByte)]

CipherTypeOK ==
  /\ crypto \in {"new", "writing", "reading", "done", "short"}
  /\ password \in Seq(AnyByte) /\ keys \in Seq(AnyByte)
  /\ sink \in Seq(CipherByte) /\ position \in Nat
  /\ sent \in Seq(AnyByte) /\ accepted \in Seq(AnyByte) /\ got \in Seq(AnyByte)
  /\ failed \in BOOLEAN /\ in_step \in Nat

\* What was encrypted and got to the sink.
Stream == CipherHeader \o sent

\* The sink holds the header and the body, as they are encrypted under the
\* password up to the first failure.
SinkHolds ==
  /\ Len(sink) = HeaderLen + Len(sent) /\ in_step <= Len(sent)
  /\ \A i \in 1..Len(sink) : sink[i].plain = Stream[i]
  /\ Enciphers(password, Stream, sink, HeaderLen + in_step)
  /\ ~failed => sent = accepted /\ in_step = Len(sent)

\* The reader with the right password has the keys of its position.
ReaderInStep ==
  /\ check_byte = {CHECK}
  /\ position = HeaderLen + Len(got) /\ position <= Len(sink)
  /\ keys = (password \o CipherHeader) \o got
  /\ \A i \in 1..Len(got) : i <= in_step => got[i] = sent[i]

(***************************************************************************)
(* What the two sides of the stream know of each other.                    *)
(***************************************************************************)
CipherInv ==
  /\ CipherTypeOK
  /\ crypto \in {"new", "done"} => Len(sink) < HeaderLen
  /\ crypto = "new" => sent = <<>> /\ in_step = 0 /\ ~failed /\ accepted = <<>>
  /\ crypto \in {"new", "writing", "done"} => position = 0 /\ tried = {} /\ got = <<>>
  /\ crypto \in {"writing", "reading"} => SinkHolds
  /\ crypto = "writing" /\ ~failed => keys = password \o Stream
  /\ crypto = "reading" /\ tried = {password} => ReaderInStep

LEMMA CipherHeaderIs ==
  /\ CipherHeader \in Seq(AnyByte) /\ Len(CipherHeader) = HeaderLen
  /\ HeaderLen \in Nat \ {0} /\ CipherHeader[HeaderLen] = CHECK
BY CipherAssumption DEF CipherHeader, AnyByte

LEMMA EncryptedBytes ==
  ASSUME NEW ks \in Seq(AnyByte), NEW plain \in Seq(AnyByte), NEW k \in 0..Len(plain)
  PROVE  /\ SubSeq(Encrypted(ks, plain), 1, k) \in Seq(CipherByte)
         /\ Len(SubSeq(Encrypted(ks, plain), 1, k)) = k
         /\ \A i \in 1..k : /\ SubSeq(Encrypted(ks, plain), 1, k)[i].plain = plain[i]
                            /\ SubSeq(Encrypted(ks, plain), 1, k)[i].keys
                                 = ks \o SubSeq(plain, 1, i - 1)
<1>1. PICK e : e = Encrypted(ks, plain)
  OBVIOUS
<1>2. DOMAIN plain = 1..Len(plain) /\ Len(plain) \in Nat
  OBVIOUS
<1>3. ASSUME NEW i \in 1..Len(plain)
      PROVE  e[i] \in CipherByte /\ e[i].plain = plain[i] /\ e[i].keys = ks \o SubSeq(plain, 1, i - 1)
  <2>1. ks \o SubSeq(plain, 1, i - 1) \in Seq(AnyByte) /\ plain[i] \in AnyByte
    OBVIOUS
  <2>2. e[i] = [plain |-> plain[i], keys |-> ks \o SubSeq(plain, 1, i - 1)]
    BY <1>1, <1>2 DEF Encrypted
  <2> QED
    BY <2>1, <2>2 DEF CipherByte
<1>4. e = [i \in 1..Len(plain) |-> e[i]]
  BY <1>1, <1>2 DEF Encrypted
<1>5. e \in Seq(CipherByte) /\ Len(e) = Len(plain)
  BY <1>2, <1>3, <1>4
<1>6. SubSeq(e, 1, k) \in Seq(CipherByte) /\ Len(SubSeq(e, 1, k)) = k
  BY <1>5
<1>7. \A i \in 1..k : SubSeq(e, 1, k)[i] = e[i] /\ i \in 1..Len(plain)
  BY <1>5
<1> QED
  BY <1>1, <1>3, <1>6, <1>7

LEMMA CipherBegins == CipherInit => CipherInv
<1> SUFFICES ASSUME CipherInit PROVE CipherInv
  OBVIOUS
<1>1. password \in Seq(AnyByte)
  BY CipherAssumption DEF CipherInit, AnyByte
<1>2. CipherTypeOK
  <2>1. <<>> \in Seq(AnyByte) /\ <<>> \in Seq(CipherByte)
    OBVIOUS
  <2>2. 0 \in Nat /\ FALSE \in BOOLEAN
    OBVIOUS
  <2> QED
    BY <1>1, <2>1, <2>2, Zenon DEF CipherInit, CipherTypeOK
<1> QED
  BY <1>2, CipherHeaderIs DEF CipherInit, CipherInv

LEMMA HeaderWritten == CipherInv /\ NewEncryptor => CipherInv'
<1> SUFFICES ASSUME CipherInv, NewEncryptor PROVE CipherInv'
  OBVIOUS
<1>1. PICK k \in 0..HeaderLen :
        /\ sink' = SubSeq(Encrypted(password, CipherHeader), 1, k)
        /\ crypto' = IF k = HeaderLen THEN "writing" ELSE "done"
  BY DEF NewEncryptor
<1>2. /\ crypto = "new" /\ keys' = password \o CipherHeader
      /\ UNCHANGED <<password, position, check_byte, tried, sent, failed, in_step, accepted, got>>
  BY DEF NewEncryptor
<1>3. k \in 0..Len(CipherHeader) /\ CipherHeader \in Seq(AnyByte) /\ HeaderLen \in Nat
  BY CipherHeaderIs
<1>4. password \in Seq(AnyByte)
  BY DEF CipherInv, CipherTypeOK
<1>5. sink' \in Seq(CipherByte) /\ Len(sink') = k
  BY <1>1, <1>3, <1>4, EncryptedBytes
<1>6. \A i \in 1..k : /\ sink'[i].plain = CipherHeader[i]
                      /\ sink'[i].keys = password \o SubSeq(CipherHeader, 1, i - 1)
  BY <1>1, <1>3, <1>4, EncryptedBytes
<1>7. sent = <<>> /\ in_step = 0 /\ ~failed /\ accepted = <<>>
  BY <1>2 DEF CipherInv
<1>8. Stream' = CipherHeader
  BY <1>2, <1>3, <1>7 DEF Stream, CipherHeader
<1>9. CipherTypeOK'
  BY <1>1, <1>2, <1>3, <1>4, <1>5 DEF CipherInv, CipherTypeOK
<1>10. CASE k = HeaderLen
  <2>1. SinkHolds'
    <3>1. Len(sent') = 0 /\ in_step' = 0 /\ password' = password
      BY <1>2, <1>7
    <3>2. Len(sink') = HeaderLen + Len(sent') /\ in_step' <= Len(sent')
      BY <1>3, <1>5, <1>10, <3>1
    <3>3. \A i \in 1..Len(sink') : sink'[i].plain = Stream'[i]
      BY <1>5, <1>6, <1>8
    <3>4. HeaderLen + in_step' = k
      BY <1>3, <1>10, <3>1
    <3>5. Enciphers(password, Stream, sink, HeaderLen + in_step)'
      BY <1>6, <1>8, <3>1, <3>4 DEF Enciphers
    <3>6. sent' = accepted' /\ in_step' = Len(sent')
      BY <1>2, <1>7
    <3> QED
      BY <3>2, <3>3, <3>5, <3>6 DEF SinkHolds
  <2> QED
    BY <1>1, <1>2, <1>8, <1>9, <1>10, <2>1 DEF CipherInv
<1>11. CASE k # HeaderLen
  BY <1>1, <1>2, <1>3, <1>5, <1>9, <1>11 DEF CipherInv
<1> QED
  BY <1>10, <1>11

LEMMA Regroup ==
  \A a, b, c \in Seq(AnyByte) : (a \o b) \o c = a \o (b \o c)
BY ConcatAssociative

\* Bytes behind the stream do not change what is in front of them.
LEMMA EnciphersOn ==
  ASSUME NEW ks, NEW plain \in Seq(AnyByte), NEW more \in Seq(AnyByte),
         NEW cipher \in Seq(CipherByte), NEW piece \in Seq(CipherByte),
         NEW m \in Nat, m <= Len(plain), m <= Len(cipher), Enciphers(ks, plain, cipher, m)
  PROVE  Enciphers(ks, plain \o more, cipher \o piece, m)
<1> SUFFICES ASSUME NEW i \in 1..m
             PROVE  /\ (cipher \o piece)[i].plain = (plain \o more)[i]
                    /\ (cipher \o piece)[i].keys = ks \o SubSeq(plain \o more, 1, i - 1)
  BY DEF Enciphers
<1>1. (cipher \o piece)[i] = cipher[i] /\ (plain \o more)[i] = plain[i]
  OBVIOUS
<1>2. i - 1 \in 0..Len(plain)
  OBVIOUS
<1>3. SubSeq(plain \o more, 1, i - 1) = SubSeq(plain, 1, i - 1)
  BY <1>2, FrontOfConcat
<1> QED
  BY <1>1, <1>3 DEF Enciphers

\* A piece that continues the stream with the keys of its end.
LEMMA EnciphersMore ==
  ASSUME NEW ks \in Seq(AnyByte), NEW plain \in Seq(AnyByte), NEW more \in Seq(AnyByte),
         NEW cipher \in Seq(CipherByte), NEW piece \in Seq(CipherByte),
         Len(cipher) = Len(plain), Len(piece) = Len(more),
         Enciphers(ks, plain, cipher, Len(plain)),
         Enciphers(ks \o plain, more, piece, Len(more))
  PROVE  Enciphers(ks, plain \o more, cipher \o piece, Len(plain) + Len(more))
<1>1. Enciphers(ks, plain \o more, cipher \o piece, Len(plain))
  BY EnciphersOn
<1>2. ASSUME NEW j \in 1..Len(more)
      PROVE  /\ (cipher \o piece)[Len(plain) + j].plain = (plain \o more)[Len(plain) + j]
             /\ (cipher \o piece)[Len(plain) + j].keys
                  = ks \o SubSeq(plain \o more, 1, Len(plain) + j - 1)
  <2>1. /\ (cipher \o piece)[Len(plain) + j] = piece[j]
        /\ (plain \o more)[Len(plain) + j] = more[j]
    OBVIOUS
  <2>2. j - 1 \in 0..Len(more) /\ Len(plain) + j - 1 = Len(plain) + (j - 1)
    OBVIOUS
  <2>3. SubSeq(plain \o more, 1, Len(plain) + (j - 1)) = plain \o SubSeq(more, 1, j - 1)
    BY <2>2, ConcatFront
  <2>4. SubSeq(more, 1, j - 1) \in Seq(AnyByte)
    OBVIOUS
  <2>5. ks \o (plain \o SubSeq(more, 1, j - 1)) = (ks \o plain) \o SubSeq(more, 1, j - 1)
    BY <2>4, Regroup, ZenonT(30)
  <2>6. /\ piece[j].plain = more[j]
        /\ piece[j].keys = (ks \o plain) \o SubSeq(more, 1, j - 1)
    BY DEF Enciphers
  <2> QED
    BY <2>1, <2>2, <2>3, <2>5, <2>6
<1>3. ASSUME NEW i \in 1..(Len(plain) + Len(more)), i \notin 1..Len(plain)
      PROVE  \E j \in 1..Len(more) : i = Len(plain) + j
  <2>1. i - Len(plain) \in 1..Len(more) /\ i = Len(plain) + (i - Len(plain))
    BY <1>3
  <2> QED
    BY <2>1
<1>4. ASSUME NEW i \in 1..(Len(plain) + Len(more))
      PROVE  /\ (cipher \o piece)[i].plain = (plain \o more)[i]
             /\ (cipher \o piece)[i].keys = ks \o SubSeq(plain \o more, 1, i - 1)
  <2>1. CASE i \in 1..Len(plain)
    BY <1>1, <2>1 DEF Enciphers
  <2>2. CASE i \notin 1..Len(plain)
    <3>1. PICK j \in 1..Len(more) : i = Len(plain) + j
      BY <1>3, <2>2
    <3>2. Len(plain) + j - 1 = i - 1
      BY <3>1
    <3> QED
      BY <1>2, <3>1, <3>2, Zenon
  <2> QED
    BY <2>1, <2>2
<1> QED
  BY <1>4 DEF Enciphers

LEMMA ChunkWithin ==
  ASSUME NEW k \in Nat, NEW n \in Nat
  PROVE  UpToChunk(k, n) \in 0..n
<1>1. PICK c \in Nat \ {0} : c = Chunk
  BY CipherAssumption
<1>2. PICK q \in Nat : q = k \div c + 1
  <2>1. k \div c \in Nat
    BY <1>1
  <2> QED
    BY <2>1
<1>3. PICK e \in Nat : e = q * c
  <2>1. q * c \in Nat
    BY <1>1
  <2> QED
    BY <2>1
<1>4. UpToChunk(k, n) = IF e < n THEN e ELSE n
  BY <1>1, <1>2, <1>3 DEF UpToChunk
<1> QED
  BY <1>4

LEMMA BufferWritten ==
  ASSUME CipherInv, NEW n \in 1..MaxWrite, NEW buf \in [1..n -> Plain], EncryptorWrite(buf)
  PROVE  CipherInv'
<1>1. /\ buf \in Seq(AnyByte) /\ Len(buf) = n /\ n \in Nat
      /\ CipherHeader \in Seq(AnyByte) /\ Len(CipherHeader) = HeaderLen /\ HeaderLen \in Nat
  <2>1. n \in Nat
    BY CipherAssumption
  <2> QED
    BY <2>1, CipherHeaderIs DEF AnyByte
<1>2. PICK k \in 0..n :
       /\ sink' = sink \o SubSeq(Encrypted(keys, buf), 1, k)
       /\ sent' = sent \o SubSeq(buf, 1, k)
       /\ IF k = Len(buf)
          THEN accepted' = accepted \o buf /\ keys' = keys \o buf
          ELSE UNCHANGED accepted /\ keys' = keys \o SubSeq(buf, 1, UpToChunk(k, Len(buf)))
       /\ in_step' = IF failed THEN in_step ELSE in_step + k
       /\ failed' = (failed \/ k < Len(buf))
  BY <1>1 DEF EncryptorWrite
<1>3. crypto = "writing" /\ UNCHANGED <<crypto, password, position, check_byte, tried, got>>
  BY DEF EncryptorWrite
<1>4. /\ password \in Seq(AnyByte) /\ keys \in Seq(AnyByte) /\ sink \in Seq(CipherByte)
      /\ sent \in Seq(AnyByte) /\ accepted \in Seq(AnyByte)
      /\ failed \in BOOLEAN /\ in_step \in Nat
  BY DEF CipherInv, CipherTypeOK
<1>5. PICK more \in Seq(AnyByte) : more = SubSeq(buf, 1, k) /\ Len(more) = k /\ (k = n => more = buf)
  <2>1. SubSeq(buf, 1, k) \in Seq(AnyByte) /\ Len(SubSeq(buf, 1, k)) = k
    BY <1>1
  <2>2. k = n => SubSeq(buf, 1, k) = buf
    BY <1>1, SubSeqFull
  <2> QED
    BY <2>1, <2>2
<1>6. PICK piece \in Seq(CipherByte) :
        piece = SubSeq(Encrypted(keys, buf), 1, k) /\ Len(piece) = k
  BY <1>1, <1>4, EncryptedBytes, ZenonT(30)
<1>7. Enciphers(keys, more, piece, k)
  <2>1. ASSUME NEW i \in 1..k
        PROVE  piece[i].plain = more[i] /\ piece[i].keys = keys \o SubSeq(more, 1, i - 1)
    <3>1. piece[i].plain = buf[i] /\ piece[i].keys = keys \o SubSeq(buf, 1, i - 1)
      BY <1>1, <1>4, <1>6, EncryptedBytes
    <3>2. more[i] = buf[i] /\ SubSeq(more, 1, i - 1) = SubSeq(buf, 1, i - 1)
      BY <1>1, <1>5
    <3> QED
      BY <3>1, <3>2
  <2> QED
    BY <2>1 DEF Enciphers
<1>8. SinkHolds
  BY <1>3 DEF CipherInv
<1>9. Stream \in Seq(AnyByte) /\ Len(Stream) = HeaderLen + Len(sent) /\ Len(sink) = Len(Stream)
  <2>1. Len(sink) = HeaderLen + Len(sent)
    BY <1>8 DEF SinkHolds
  <2> QED
    BY <1>1, <1>4, <2>1 DEF Stream
<1>10. Stream' = Stream \o more
  <2>1. Stream' = CipherHeader \o (sent \o more)
    BY <1>2, <1>5 DEF Stream, CipherHeader
  <2> QED
    BY <1>1, <1>4, <2>1, Regroup, ZenonT(30) DEF Stream
<1>11. sink' = sink \o piece /\ Len(sink') = Len(sink) + k
  BY <1>2, <1>4, <1>6
<1>12. sent' = sent \o more /\ Len(sent') = Len(sent) + k /\ sent' \in Seq(AnyByte)
  BY <1>2, <1>4, <1>5
<1>13. \A i \in 1..Len(sink') : sink'[i].plain = Stream'[i]
  <2> SUFFICES ASSUME NEW i \in 1..(Len(sink) + k) PROVE (sink \o piece)[i].plain = (Stream \o more)[i]
    BY <1>10, <1>11
  <2>1. CASE i <= Len(sink)
    <3>1. (sink \o piece)[i] = sink[i] /\ (Stream \o more)[i] = Stream[i] /\ i \in 1..Len(sink)
      BY <1>4, <1>9, <2>1
    <3> QED
      BY <1>8, <3>1 DEF SinkHolds
  <2>2. CASE ~(i <= Len(sink))
    <3>1. PICK j \in 1..k : i = Len(sink) + j
      <4>1. i - Len(sink) \in 1..k /\ i = Len(sink) + (i - Len(sink))
        BY <1>4, <2>2
      <4> QED
        BY <4>1
    <3>2. (sink \o piece)[i] = piece[j] /\ (Stream \o more)[i] = more[j]
      BY <1>4, <1>5, <1>6, <1>9, <3>1, SMTT(30)
    <3> QED
      BY <1>7, <3>2 DEF Enciphers
  <2> QED
    BY <2>1, <2>2
<1>14. ASSUME failed PROVE failed' /\ SinkHolds'
  <2>1. in_step' = in_step /\ failed'
    BY <1>2, <1>14
  <2>2. in_step <= Len(sent)
    BY <1>8 DEF SinkHolds
  <2>3. /\ HeaderLen + in_step \in Nat /\ HeaderLen + in_step <= Len(Stream)
        /\ HeaderLen + in_step <= Len(sink) /\ in_step <= Len(sent')
    BY <1>1, <1>4, <1>9, <1>12, <2>2
  <2>4. Enciphers(password, Stream, sink, HeaderLen + in_step)
    BY <1>8 DEF SinkHolds
  <2>5. Enciphers(password, Stream \o more, sink \o piece, HeaderLen + in_step)
    BY <1>4, <1>9, <2>3, <2>4, EnciphersOn
  <2>6. Enciphers(password, Stream, sink, HeaderLen + in_step)'
    BY <1>3, <1>10, <1>11, <2>1, <2>5
  <2>7. Len(sink') = HeaderLen + Len(sent')
    BY <1>1, <1>4, <1>9, <1>11, <1>12
  <2> QED
    BY <1>13, <2>1, <2>3, <2>6, <2>7 DEF SinkHolds
<1>15. ASSUME ~failed PROVE SinkHolds' /\ (~failed' => keys' = password' \o Stream')
  <2>1. in_step' = in_step + k /\ keys = password \o Stream
    BY <1>2, <1>3, <1>15 DEF CipherInv
  <2>2. in_step = Len(sent) /\ sent = accepted
    BY <1>8, <1>15 DEF SinkHolds
  <2>3. Enciphers(password, Stream, sink, Len(Stream))
    BY <1>8, <1>9, <2>2 DEF SinkHolds
  <2>4. Enciphers(password \o Stream, more, piece, Len(more))
    BY <1>5, <1>7, <2>1
  <2>5. Enciphers(password, Stream \o more, sink \o piece, Len(Stream) + Len(more))
    BY <1>4, <1>5, <1>6, <1>9, <2>3, <2>4, EnciphersMore
  <2>6. Len(Stream) + Len(more) = HeaderLen + in_step' /\ in_step' = Len(sent')
    <3>1. Len(more) = k /\ Len(sent') = Len(sent) + k /\ k \in Nat /\ Len(sent) \in Nat
      BY <1>1, <1>4, <1>5, <1>12
    <3> QED
      BY <1>1, <1>9, <2>1, <2>2, <3>1
  <2>7. Enciphers(password, Stream, sink, HeaderLen + in_step)'
    BY <1>3, <1>10, <1>11, <2>5, <2>6
  <2>8. Len(sink') = HeaderLen + Len(sent') /\ in_step' <= Len(sent')
    BY <1>1, <1>4, <1>9, <1>11, <1>12, <2>6
  <2>9. ~failed' => accepted' = sent' /\ keys' = password' \o Stream'
    <3> SUFFICES ASSUME k = n PROVE accepted' = sent' /\ keys' = password' \o Stream'
      <4>1. k \in 0..n /\ n \in Nat /\ Len(buf) = n /\ (failed' <=> failed \/ k < Len(buf))
        BY <1>1, <1>2
      <4>2. ~failed' => k = n
        BY <4>1
      <4> QED
        BY <4>2
    <3>1. accepted' = accepted \o buf /\ keys' = keys \o buf /\ more = buf
      BY <1>1, <1>2, <1>5
    <3>2. accepted' = sent'
      BY <1>12, <2>2, <3>1
    <3>3. keys' = (password \o Stream) \o more
      BY <2>1, <3>1
    <3>4. keys' = password \o (Stream \o more)
      <4>1. password \in Seq(AnyByte) /\ Stream \in Seq(AnyByte) /\ more \in Seq(AnyByte)
        BY <1>4, <1>5, <1>9
      <4> QED
        BY <3>3, <4>1, Regroup, ZenonT(30)
    <3> QED
      BY <1>3, <1>10, <3>2, <3>4
  <2> QED
    BY <1>13, <2>6, <2>7, <2>8, <2>9 DEF SinkHolds
<1>16. CipherTypeOK'
  <2>1. keys' \in Seq(AnyByte) /\ accepted' \in Seq(AnyByte)
    <3>1. k \in Nat /\ n \in Nat
      BY <1>1
    <3>2. UpToChunk(k, n) \in 0..n
      BY <3>1, ChunkWithin, Zenon
    <3>3. SubSeq(buf, 1, UpToChunk(k, n)) \in Seq(AnyByte)
      BY <1>1, <3>2
    <3>4. CASE k = Len(buf)
      <4>1. accepted' = accepted \o buf /\ keys' = keys \o buf
        BY <1>2, <3>4
      <4> QED
        BY <1>1, <1>4, <4>1
    <3>5. CASE k # Len(buf)
      <4>1. accepted' = accepted /\ keys' = keys \o SubSeq(buf, 1, UpToChunk(k, n))
        BY <1>1, <1>2, <3>5
      <4> QED
        BY <1>4, <3>3, <4>1
    <3> QED
      BY <3>4, <3>5
  <2>2. in_step' \in Nat /\ failed' \in BOOLEAN
    BY <1>2, <1>4
  <2>3. sink' \in Seq(CipherByte)
    BY <1>4, <1>11
  <2> QED
    BY <1>3, <1>12, <2>1, <2>2, <2>3 DEF CipherInv, CipherTypeOK
<1> QED
  BY <1>3, <1>14, <1>15, <1>16 DEF CipherInv

\* Part of a sequence.
\* part is made of the k elements of s behind the first ones.
IsPart(part, s, from, k) ==
  Len(part) = k /\ \A i \in 1..k : part[i] = s[from + i]

LEMMA PartExists ==
  ASSUME NEW V, NEW s \in Seq(V), NEW from \in Nat, NEW k \in Nat, from + k <= Len(s)
  PROVE  \E part \in Seq(V) : part = SubSeq(s, from + 1, from + k) /\ IsPart(part, s, from, k)
<1>1. SubSeq(s, from + 1, from + k) \in Seq(V)
  OBVIOUS
<1>2. Len(SubSeq(s, from + 1, from + k)) = k
  OBVIOUS
<1>3. \A i \in 1..k : SubSeq(s, from + 1, from + k)[i] = s[from + i]
  OBVIOUS
<1>4. IsPart(SubSeq(s, from + 1, from + k), s, from, k)
  BY <1>2, <1>3 DEF IsPart
<1> QED
  BY <1>1, <1>4, Zenon

LEMMA FrontExists ==
  ASSUME NEW V, NEW s \in Seq(V), NEW k \in Nat, k <= Len(s)
  PROVE  \E part \in Seq(V) : part = SubSeq(s, 1, k) /\ IsPart(part, s, 0, k)
<1>1. SubSeq(s, 1, k) \in Seq(V) /\ Len(SubSeq(s, 1, k)) = k
  OBVIOUS
<1>2. \A i \in 1..k : SubSeq(s, 1, k)[i] = s[0 + i]
  OBVIOUS
<1>3. IsPart(SubSeq(s, 1, k), s, 0, k)
  BY <1>1, <1>2 DEF IsPart
<1> QED
  BY <1>1, <1>3, Zenon

\* What Cipher::decrypt gives is as long as what it gets.
LEMMA DecryptedExists ==
  ASSUME NEW ks \in Seq(AnyByte), NEW cipher \in Seq(CipherByte)
  PROVE  \E plain \in Seq(AnyByte) : plain = Decrypted(ks, cipher) /\ Len(plain) = Len(cipher)
<1>1. Garbled \in AnyByte
  BY DEF AnyByte
<1>2. cipher \in Seq([plain : AnyByte, keys : Seq(AnyByte)])
  BY DEF CipherByte
<1>3. /\ Decrypted(ks, cipher) \in Seq(AnyByte)
      /\ Deciphers(ks, cipher, Len(cipher), Decrypted(ks, cipher))
  BY <1>1, <1>2, DecryptedBytes
<1> QED
  BY <1>3 DEF Deciphers

LEMMA DecryptedWell ==
  ASSUME NEW ks \in Seq(AnyByte), NEW plain \in Seq(AnyByte), NEW cipher \in Seq(CipherByte),
         NEW m \in Nat, m <= Len(plain), m <= Len(cipher), Enciphers(ks, plain, cipher, m)
  PROVE  \A i \in 1..m : Decrypted(ks, cipher)[i] = plain[i]
<1>1. Garbled \in AnyByte
  BY DEF AnyByte
<1>2. cipher \in Seq([plain : AnyByte, keys : Seq(AnyByte)])
  BY DEF CipherByte
<1>3. Restores(ks, plain, cipher, m)
  BY <1>1, <1>2, DecryptedIsPlain, Zenon
<1> QED
  BY <1>3 DEF Restores

LEMMA Opened == 
  ASSUME CipherInv, NEW p \in Passwords, NewDecryptor(p)
  PROVE  CipherInv'
<1>1. /\ crypto \in {"writing", "done"} /\ position = 0 /\ tried' = {p}
      /\ UNCHANGED <<password, sink, sent, failed, in_step, accepted, got>>
  BY DEF NewDecryptor
<1>2. CipherTypeOK /\ got = <<>> /\ (crypto = "writing" => SinkHolds)
  BY <1>1 DEF CipherInv
<1>3. CASE Len(sink) < HeaderLen
  <2>1. crypto' = "short" /\ UNCHANGED <<keys, position, check_byte>>
    BY <1>3 DEF NewDecryptor
  <2> QED
    BY <1>1, <1>2, <2>1 DEF CipherInv, CipherTypeOK
<1>4. CASE ~(Len(sink) < HeaderLen)
  <2>1. crypto = "writing" /\ SinkHolds
    BY <1>1, <1>2, <1>4 DEF CipherInv
  <2>2. PICK header : header = Decrypted(p, SubSeq(sink, 1, HeaderLen))
    OBVIOUS
  <2>3. /\ crypto' = "reading" /\ position' = HeaderLen
        /\ keys' = p \o header /\ check_byte' = {header[HeaderLen]}
    BY <1>4, <2>2 DEF NewDecryptor
  <2>4. /\ HeaderLen \in Nat \ {0} /\ CipherHeader \in Seq(AnyByte)
        /\ Len(CipherHeader) = HeaderLen /\ CipherHeader[HeaderLen] = CHECK
    BY CipherHeaderIs
  <2>5. /\ sink \in Seq(CipherByte) /\ sent \in Seq(AnyByte) /\ in_step \in Nat
        /\ p \in Seq(AnyByte) /\ password \in Seq(AnyByte) /\ Garbled \in AnyByte
    BY <1>2, CipherAssumption DEF CipherTypeOK, AnyByte
  <2>6. PICK cipher \in Seq(CipherByte) :
          cipher = SubSeq(sink, 1, HeaderLen) /\ IsPart(cipher, sink, 0, HeaderLen)
    <3>1. HeaderLen \in Nat /\ HeaderLen <= Len(sink)
      BY <1>4, <2>4, <2>5
    <3> QED
      BY <2>5, <3>1, FrontExists
  <2>a. Len(cipher) = HeaderLen /\ \A i \in 1..HeaderLen : cipher[i] = sink[i]
    BY <2>4, <2>6 DEF IsPart
  <2>7. header \in Seq(AnyByte) /\ Len(header) = HeaderLen
    BY <2>2, <2>5, <2>6, <2>a, DecryptedExists
  <2>8. CipherTypeOK'
    BY <1>1, <1>2, <2>3, <2>4, <2>5, <2>7 DEF CipherTypeOK
  <2>9. SinkHolds'
    BY <1>1, <2>1 DEF SinkHolds, Stream, CipherHeader, Enciphers
  <2>10. ASSUME p = password PROVE ReaderInStep'
    <3>1. Enciphers(password, CipherHeader, cipher, HeaderLen)
      <4> SUFFICES ASSUME NEW i \in 1..HeaderLen
                   PROVE  /\ cipher[i].plain = CipherHeader[i]
                          /\ cipher[i].keys = password \o SubSeq(CipherHeader, 1, i - 1)
        BY DEF Enciphers
      <4>1. i \in 1..(HeaderLen + in_step) /\ i \in 1..Len(sink)
        BY <1>4, <2>4, <2>5
      <4>2. /\ sink[i].plain = Stream[i]
            /\ sink[i].keys = password \o SubSeq(Stream, 1, i - 1)
        BY <2>1, <4>1 DEF SinkHolds, Enciphers
      <4>3. Stream[i] = CipherHeader[i]
        BY <2>4, <2>5 DEF Stream
      <4>4. i - 1 \in 0..Len(CipherHeader)
        BY <2>4
      <4>5. SubSeq(Stream, 1, i - 1) = SubSeq(CipherHeader, 1, i - 1)
        BY <2>4, <2>5, <4>4, FrontOfConcat DEF Stream
      <4> QED
        BY <2>a, <4>2, <4>3, <4>5
    <3>2. \A i \in 1..HeaderLen : header[i] = CipherHeader[i]
      <4>1. HeaderLen \in Nat /\ HeaderLen <= Len(CipherHeader) /\ HeaderLen <= Len(cipher)
        BY <2>4, <2>a
      <4>2. \A i \in 1..HeaderLen : Decrypted(password, cipher)[i] = CipherHeader[i]
        BY <2>4, <2>5, <3>1, <4>1, DecryptedWell
      <4> QED
        BY <2>2, <2>6, <2>10, <4>2
    <3>3. header = CipherHeader
      BY <2>4, <2>7, <3>2, SeqEqual
    <3>4. keys' = (password' \o CipherHeader') \o got' /\ Len(got') = 0
      <4>1. password \o CipherHeader \in Seq(AnyByte) /\ CipherHeader' = CipherHeader
        BY <2>4, <2>5 DEF CipherHeader
      <4>2. keys' = password \o CipherHeader
        BY <2>3, <2>10, <3>3
      <4>3. (password \o CipherHeader) \o <<>> = password \o CipherHeader
        BY <4>1
      <4> QED
        BY <1>1, <1>2, <4>1, <4>2, <4>3
    <3>5. check_byte' = {CHECK}
      BY <2>3, <2>4, <3>3
    <3>6. position' = HeaderLen + Len(got') /\ position' <= Len(sink')
      BY <1>1, <1>4, <2>3, <2>4, <2>5, <3>4
    <3>7. \A i \in 1..Len(got') : i <= in_step' => got'[i] = sent'[i]
      BY <3>4
    <3> QED
      BY <3>4, <3>5, <3>6, <3>7 DEF ReaderInStep
  <2> QED
    BY <1>1, <1>4, <2>3, <2>8, <2>9, <2>10 DEF CipherInv
<1> QED
  BY <1>3, <1>4

LEMMA PieceRead ==
  ASSUME CipherInv, NEW n \in 1..MaxRead, DecryptorRead(n)
  PROVE  CipherInv'
<1>1. PICK k \in 0..n :
       /\ position + k <= Len(sink) /\ (k = 0 => position = Len(sink))
       /\ got' = got \o Decrypted(keys, SubSeq(sink, position + 1, position + k))
       /\ position' = position + k
       /\ keys' = keys \o Decrypted(keys, SubSeq(sink, position + 1, position + k))
  BY DEF DecryptorRead
<1>2. /\ crypto = "reading"
      /\ UNCHANGED <<crypto, password, sink, check_byte, tried, sent, failed, in_step, accepted>>
  BY DEF DecryptorRead
<1>3. CipherTypeOK /\ SinkHolds /\ (tried = {password} => ReaderInStep)
  BY <1>2 DEF CipherInv
<1>4. /\ k \in Nat /\ position \in Nat /\ in_step \in Nat /\ Garbled \in AnyByte
      /\ HeaderLen \in Nat /\ CipherHeader \in Seq(AnyByte) /\ Len(CipherHeader) = HeaderLen
  BY <1>3, CipherAssumption, CipherHeaderIs DEF CipherTypeOK, AnyByte
<1>5. /\ sink \in Seq(CipherByte) /\ sent \in Seq(AnyByte) /\ got \in Seq(AnyByte)
      /\ keys \in Seq(AnyByte) /\ password \in Seq(AnyByte)
  BY <1>3 DEF CipherTypeOK
<1>6. PICK cipher \in Seq(CipherByte) :
        /\ cipher = SubSeq(sink, position + 1, position + k)
        /\ IsPart(cipher, sink, position, k)
  BY <1>1, <1>4, <1>5, PartExists
<1>7. PICK plain \in Seq(AnyByte) : plain = Decrypted(keys, cipher) /\ Len(plain) = k
  <2>1. Len(cipher) = k
    BY <1>6 DEF IsPart
  <2> QED
    BY <1>5, <2>1, DecryptedExists
<1>8. got' = got \o plain /\ keys' = keys \o plain
  BY <1>1, <1>6, <1>7
<1>9. CipherTypeOK'
  <2>1. got' \in Seq(AnyByte) /\ keys' \in Seq(AnyByte) /\ position' \in Nat
    <3>1. got \o plain \in Seq(AnyByte) /\ keys \o plain \in Seq(AnyByte)
      BY <1>5, <1>7, ConcatProperties, Zenon
    <3>2. position' \in Nat
      BY <1>1, <1>4
    <3> QED
      BY <1>8, <3>1, <3>2
  <2> QED
    BY <1>2, <1>3, <2>1 DEF CipherTypeOK
<1>10. SinkHolds'
  BY <1>2, <1>3 DEF SinkHolds, Stream, CipherHeader, Enciphers
<1>11. ASSUME tried = {password} PROVE ReaderInStep'
  <2>1. /\ check_byte = {CHECK} /\ position = HeaderLen + Len(got)
        /\ keys = (password \o CipherHeader) \o got
        /\ \A i \in 1..Len(got) : i <= in_step => got[i] = sent[i]
    BY <1>3, <1>11 DEF ReaderInStep
  <2>2. /\ Len(sink) = HeaderLen + Len(sent) /\ in_step <= Len(sent)
        /\ Enciphers(password, Stream, sink, HeaderLen + in_step)
    BY <1>3 DEF SinkHolds
  <2>3. CipherHeader' = CipherHeader
    BY DEF CipherHeader
  <2>4. position' = HeaderLen + Len(got') /\ position' <= Len(sink')
    <3>1. Len(got') = Len(got) + k /\ Len(got) \in Nat
      <4>1. Len(got \o plain) = Len(got) + Len(plain)
        BY <1>5, <1>7, ConcatProperties, Zenon
      <4> QED
        BY <1>5, <1>7, <1>8, <4>1
    <3>2. position + k <= Len(sink) /\ position' = position + k /\ sink' = sink
      BY <1>1, <1>2
    <3> QED
      BY <1>4, <2>1, <3>1, <3>2
  <2>5. keys' = (password' \o CipherHeader') \o got'
    <3>1. password \o CipherHeader \in Seq(AnyByte)
      BY <1>4, <1>5
    <3> QED
      BY <1>2, <1>5, <1>7, <1>8, <2>1, <2>3, <3>1, Regroup, ZenonT(30)
  <2>6. ASSUME NEW i \in 1..k, Len(got) + i <= in_step
        PROVE  plain[i] = sent[Len(got) + i]
    <3>1. PICK g \in Nat : g = Len(got) /\ g < in_step /\ position = HeaderLen + g
      BY <1>4, <1>5, <2>1, <2>6
    <3>2. PICK m \in Nat : m = i /\ m <= k /\ g + m <= in_step /\ g + m <= Len(sent)
      BY <1>4, <1>5, <2>2, <2>6, <3>1
    <3>a. PICK truth \in Seq(AnyByte) :
            truth = SubSeq(sent, g + 1, g + m) /\ IsPart(truth, sent, g, m)
      BY <1>5, <3>1, <3>2, PartExists
    <3>3. Len(truth) = m /\ \A j \in 1..m : truth[j] = sent[g + j]
      BY <3>a DEF IsPart
    <3>4. SubSeq(sent, 1, g) = got
      <4>1. SubSeq(sent, 1, g) \in Seq(AnyByte) /\ Len(SubSeq(sent, 1, g)) = g
        BY <1>5, <3>1, <3>2
      <4>2. \A j \in 1..g : SubSeq(sent, 1, g)[j] = got[j]
        BY <1>4, <1>5, <2>1, <3>1, <3>2
      <4> QED
        BY <1>5, <3>1, <4>1, <4>2, SeqEqual
    <3>5. ASSUME NEW j \in 1..m
          PROVE  cipher[j].plain = truth[j] /\ cipher[j].keys = keys \o SubSeq(truth, 1, j - 1)
      <4>1. /\ HeaderLen + g + j \in 1..(HeaderLen + in_step)
            /\ HeaderLen + g + j \in 1..Len(sink) /\ position + j = HeaderLen + g + j
            /\ j \in 1..k /\ g + j \in 1..Len(sent)
        BY <1>4, <1>5, <2>2, <3>1, <3>2, SMTT(30)
      <4>2. /\ cipher[j].plain = Stream[HeaderLen + g + j]
            /\ cipher[j].keys = password \o SubSeq(Stream, 1, (HeaderLen + g + j) - 1)
        <5>1. cipher[j] = sink[HeaderLen + g + j]
          BY <1>6, <4>1 DEF IsPart
        <5>2. sink[HeaderLen + g + j].plain = Stream[HeaderLen + g + j]
          BY <1>3, <4>1 DEF SinkHolds
        <5>3. sink[HeaderLen + g + j].keys = password \o SubSeq(Stream, 1, (HeaderLen + g + j) - 1)
          <6>1. \A z \in 1..(HeaderLen + in_step) :
                  sink[z].keys = password \o SubSeq(Stream, 1, z - 1)
            BY <2>2 DEF Enciphers
          <6> QED
            BY <4>1, <6>1, Zenon
        <5> QED
          BY <5>1, <5>2, <5>3
      <4>3. Stream[HeaderLen + g + j] = truth[j]
        <5>1. (CipherHeader \o sent)[HeaderLen + (g + j)] = sent[g + j]
          <6>1. g + j \in 1..Len(sent)
            BY <4>1
          <6> QED
            BY <1>4, <1>5, <6>1, SecondOfConcat
        <5>2. HeaderLen + (g + j) = HeaderLen + g + j
          BY <1>4, <3>1, <3>2
        <5> QED
          BY <3>3, <5>1, <5>2 DEF Stream
      <4>4. SubSeq(Stream, 1, (HeaderLen + g + j) - 1) = CipherHeader \o SubSeq(sent, 1, g + j - 1)
        <5>1. g + j - 1 \in 0..Len(sent) /\ (HeaderLen + g + j) - 1 = Len(CipherHeader) + (g + j - 1)
          BY <1>4, <3>1, <4>1
        <5>2. SubSeq(Stream, 1, Len(CipherHeader) + (g + j - 1))
                = CipherHeader \o SubSeq(sent, 1, g + j - 1)
          BY <1>4, <1>5, <5>1, ConcatFront DEF Stream
        <5> QED
          BY <5>1, <5>2
      <4>5. SubSeq(sent, 1, g + j - 1) = got \o SubSeq(truth, 1, j - 1)
        <5>1. PICK l \in Nat : l = j - 1 /\ l <= Len(truth) /\ g + l = g + j - 1 /\ l <= m
          BY <3>1, <3>2, <3>3
        <5>2. PICK front \in Seq(AnyByte) :
                front = SubSeq(truth, 1, l) /\ IsPart(front, truth, 0, l)
          BY <5>1, FrontExists
        <5>3. g + l \in Nat /\ g + l <= Len(sent)
          BY <3>1, <3>2, <5>1
        <5>4. PICK all \in Seq(AnyByte) :
                all = SubSeq(sent, 1, g + l) /\ IsPart(all, sent, 0, g + l)
          BY <1>5, <5>3, FrontExists
        <5>5. Len(all) = g + l /\ \A i_ \in 1..(g + l) : all[i_] = sent[i_]
          BY <3>1, <5>1, <5>4 DEF IsPart
        <5>6. Len(front) = l /\ \A i_ \in 1..l : front[i_] = sent[g + i_]
          BY <3>1, <3>2, <3>3, <5>1, <5>2 DEF IsPart
        <5>7. ASSUME NEW z \in 1..g PROVE got[z] = sent[z]
          <6>1. z \in 1..Len(got) /\ z <= in_step
            BY <1>4, <3>1
          <6> QED
            BY <2>1, <6>1
        <5>8. got \o front \in Seq(AnyByte) /\ Len(got \o front) = g + l
          BY <1>5, <3>1, <5>1, <5>2, <5>6, SMTT(30)
        <5>9. \A i_ \in 1..(g + l) : all[i_] = (got \o front)[i_]
          <6> SUFFICES ASSUME NEW z \in 1..(g + l) PROVE sent[z] = (got \o front)[z]
            BY <5>5
          <6>1. CASE z <= g
            BY <1>5, <3>1, <5>1, <5>2, <5>7, <6>1
          <6>2. CASE ~(z <= g)
            <7>1. z - g \in 1..l /\ g + (z - g) = z
              BY <3>1, <5>1, <6>2
            <7>2. (got \o front)[z] = front[z - g]
              BY <1>5, <3>1, <5>1, <5>2, <5>6, <6>2, SMTT(30)
            <7> QED
              BY <5>6, <7>1, <7>2
          <6> QED
            BY <6>1, <6>2
        <5>10. all = got \o front
          BY <5>5, <5>8, <5>9, SeqEqual
        <5> QED
          BY <5>1, <5>2, <5>4, <5>10
      <4>6. SubSeq(truth, 1, j - 1) \in Seq(AnyByte)
        BY <3>3
      <4>7. cipher[j].keys = password \o (CipherHeader \o (got \o SubSeq(truth, 1, j - 1)))
        BY <4>2, <4>4, <4>5
      <4>8. /\ password \o (CipherHeader \o (got \o SubSeq(truth, 1, j - 1)))
                 = (password \o CipherHeader) \o (got \o SubSeq(truth, 1, j - 1))
            /\ (password \o CipherHeader) \o (got \o SubSeq(truth, 1, j - 1))
                 = keys \o SubSeq(truth, 1, j - 1)
        <5>1. /\ got \o SubSeq(truth, 1, j - 1) \in Seq(AnyByte)
              /\ password \o CipherHeader \in Seq(AnyByte)
          BY <1>4, <1>5, <4>6
        <5>2. \A t \in Seq(AnyByte) : (password \o CipherHeader) \o t
                                        = password \o (CipherHeader \o t)
          BY <1>4, <1>5, Regroup, ZenonT(30)
        <5>3. \A t \in Seq(AnyByte) : ((password \o CipherHeader) \o got) \o t
                                        = (password \o CipherHeader) \o (got \o t)
          BY <1>5, <5>1, Regroup, ZenonT(30)
        <5> QED
          BY <2>1, <4>6, <5>1, <5>2, <5>3, Zenon
      <4> QED
        BY <4>2, <4>3, <4>7, <4>8
    <3>6. Enciphers(keys, truth, cipher, m)
      BY <3>5 DEF Enciphers
    <3>7. m \in Nat /\ m <= Len(truth) /\ m <= Len(cipher)
      BY <1>6, <3>2, <3>3 DEF IsPart
    <3>8. \A j \in 1..m : plain[j] = truth[j]
      BY <1>5, <1>7, <3>6, <3>7, DecryptedWell
    <3> QED
      BY <3>1, <3>2, <3>3, <3>8
  <2>7. ASSUME NEW i \in 1..Len(got'), i <= in_step' PROVE got'[i] = sent'[i]
    <3>1. CASE i <= Len(got)
      BY <1>2, <1>5, <1>7, <1>8, <2>1, <2>7, <3>1
    <3>2. CASE ~(i <= Len(got))
      <4>1. PICK j \in 1..k : i = Len(got) + j
        <5>1. i - Len(got) \in 1..k /\ i = Len(got) + (i - Len(got))
          BY <1>5, <1>7, <1>8, <3>2
        <5> QED
          BY <5>1
      <4>2. got'[i] = plain[j]
        BY <1>5, <1>7, <1>8, <4>1
      <4> QED
        BY <1>2, <2>6, <2>7, <4>1, <4>2
    <3> QED
      BY <3>1, <3>2
  <2> QED
    BY <1>2, <2>1, <2>4, <2>5, <2>7 DEF ReaderInStep
<1> QED
  BY <1>2, <1>9, <1>10, <1>11 DEF CipherInv

LEMMA CipherPreserved == CipherInv /\ [CipherNext]_cipherVars => CipherInv'
<1> SUFFICES ASSUME CipherInv, [CipherNext]_cipherVars PROVE CipherInv'
  OBVIOUS
<1>1. CASE UNCHANGED cipherVars
  BY <1>1 DEF cipherVars, CipherInv, CipherTypeOK, SinkHolds, ReaderInStep, Stream,
              CipherHeader, Enciphers
<1>2. CASE CipherNext
  BY <1>2, HeaderWritten, BufferWritten, Opened, PieceRead DEF CipherNext
<1> QED
  BY <1>1, <1>2

(***************************************************************************)
(* Encryptor and Decryptor: the reader with the right password gets what   *)
(* was encrypted, in the same order, up to the first failed write, however *)
(* the bytes were cut when they were written and when they are read.       *)
(***************************************************************************)
THEOREM CipherReads == CipherSpec => []DecryptsWritten
<1>1. CipherInv => DecryptsWritten
  <2> SUFFICES ASSUME CipherInv, tried = {password}, crypto = "reading"
               PROVE  DecryptsWritten
    BY DEF DecryptsWritten
  <2>1. SinkHolds /\ ReaderInStep /\ CipherTypeOK
    BY DEF CipherInv
  <2>2. got \in Seq(AnyByte) /\ sent \in Seq(AnyByte) /\ HeaderLen \in Nat
    BY <2>1, CipherHeaderIs DEF CipherTypeOK
  <2>3. DOMAIN got = 1..Len(got)
    BY <2>2
  <2>4. position = Len(sink) => Len(got) = Len(sent)
    BY <2>1, <2>2 DEF SinkHolds, ReaderInStep
  <2> QED
    BY <2>1, <2>3, <2>4 DEF DecryptsWritten, SinkHolds, ReaderInStep
<1> QED
  BY <1>1, CipherBegins, CipherPreserved, PTL DEF CipherSpec

-----------------------------------------------------------------------------
(* Words of bits.                                                          *)

BitSets == SUBSET Bit

LEMMA XorMember ==
  ASSUME NEW v, NEW w, NEW x
  PROVE  x \in Xor(v, w) <=> ~(x \in v <=> x \in w)
BY DEF Xor

LEMMA XorWord == \A v, w \in BitSets : Xor(v, w) \in BitSets
BY DEF Xor, BitSets

LEMMA XorLaws ==
  ASSUME NEW v, NEW w, NEW x
  PROVE  /\ Xor(v, w) = Xor(w, v)
         /\ Xor(Xor(v, w), x) = Xor(v, Xor(w, x))
         /\ Xor(v, v) = {} /\ Xor(v, {}) = v /\ Xor({}, v) = v
<1>1. Xor(v, w) = Xor(w, v)
  BY DEF Xor
<1>2. Xor(Xor(v, w), x) = Xor(v, Xor(w, x))
  <2>1. \A y : y \in Xor(Xor(v, w), x) <=> y \in Xor(v, Xor(w, x))
    BY XorMember
  <2> QED
    BY <2>1
<1>3. Xor(v, v) = {} /\ Xor(v, {}) = v /\ Xor({}, v) = v
  BY DEF Xor
<1> QED
  BY <1>1, <1>2, <1>3

LEMMA ShiftMember ==
  ASSUME NEW w \in BitSets, NEW n \in Nat, NEW x
  PROVE  x \in ShiftRight(w, n) <=> x \in Nat /\ x + n \in w
<1>1. \A i \in w : i \in Int
  BY DEF BitSets, Bit
<1>2. ASSUME x \in ShiftRight(w, n) PROVE x \in Nat /\ x + n \in w
  <2>1. PICK i \in w : i >= n /\ x = i - n
    BY <1>2 DEF ShiftRight
  <2> QED
    BY <1>1, <2>1
<1>3. ASSUME x \in Nat, x + n \in w PROVE x \in ShiftRight(w, n)
  <2>1. x + n >= n /\ x = (x + n) - n
    BY <1>3
  <2> QED
    BY <1>3, <2>1 DEF ShiftRight
<1> QED
  BY <1>2, <1>3

LEMMA ShiftWord == \A w \in BitSets, n \in Nat : ShiftRight(w, n) \in BitSets
<1> SUFFICES ASSUME NEW w \in BitSets, NEW n \in Nat, NEW x \in ShiftRight(w, n) PROVE x \in Bit
  BY DEF BitSets
<1>1. x \in Nat /\ x + n \in w
  BY ShiftMember
<1>2. x + n \in Bit
  BY <1>1 DEF BitSets
<1> QED
  BY <1>1, <1>2 DEF Bit

LEMMA ShiftLaws ==
  ASSUME NEW v \in BitSets, NEW w \in BitSets, NEW n \in Nat
  PROVE  /\ ShiftRight(Xor(v, w), n) = Xor(ShiftRight(v, n), ShiftRight(w, n))
         /\ \A m \in Nat : ShiftRight(ShiftRight(w, m), n) = ShiftRight(w, m + n)
         /\ ShiftRight(w, 0) = w
<1>1. ShiftRight(Xor(v, w), n) = Xor(ShiftRight(v, n), ShiftRight(w, n))
  <2>1. Xor(v, w) \in BitSets
    BY XorWord
  <2>2. ASSUME NEW x
        PROVE  x \in ShiftRight(Xor(v, w), n) <=> x \in Xor(ShiftRight(v, n), ShiftRight(w, n))
    <3>1. x \in ShiftRight(Xor(v, w), n) <=> x \in Nat /\ x + n \in Xor(v, w)
      BY <2>1, ShiftMember
    <3>2. x \in ShiftRight(v, n) <=> x \in Nat /\ x + n \in v
      BY ShiftMember
    <3>3. x \in ShiftRight(w, n) <=> x \in Nat /\ x + n \in w
      BY ShiftMember
    <3>4. x + n \in Xor(v, w) <=> ~(x + n \in v <=> x + n \in w)
      BY XorMember
    <3>5. x \in Xor(ShiftRight(v, n), ShiftRight(w, n))
            <=> ~(x \in ShiftRight(v, n) <=> x \in ShiftRight(w, n))
      BY XorMember
    <3> QED
      BY <3>1, <3>2, <3>3, <3>4, <3>5
  <2> QED
    BY <2>2
<1>2. ASSUME NEW m \in Nat PROVE ShiftRight(ShiftRight(w, m), n) = ShiftRight(w, m + n)
  <2>1. ShiftRight(w, m) \in BitSets
    BY ShiftWord
  <2>2. ASSUME NEW x
        PROVE  x \in ShiftRight(ShiftRight(w, m), n) <=> x \in ShiftRight(w, m + n)
    <3>1. x \in ShiftRight(ShiftRight(w, m), n) <=> x \in Nat /\ x + n \in ShiftRight(w, m)
      BY <2>1, ShiftMember
    <3>2. x + n \in ShiftRight(w, m) <=> x + n \in Nat /\ (x + n) + m \in w
      BY ShiftMember
    <3>3. x \in ShiftRight(w, m + n) <=> x \in Nat /\ x + (m + n) \in w
      BY ShiftMember
    <3>4. x \in Nat => x + n \in Nat /\ (x + n) + m = x + (m + n)
      OBVIOUS
    <3> QED
      BY <3>1, <3>2, <3>3, <3>4
  <2> QED
    BY <2>2
<1>3. ShiftRight(w, 0) = w
  <2>1. \A x \in w : x \in Nat /\ x + 0 = x
    BY DEF BitSets, Bit
  <2>2. ASSUME NEW x PROVE x \in ShiftRight(w, 0) <=> x \in w
    <3>1. x \in ShiftRight(w, 0) <=> x \in Nat /\ x + 0 \in w
      BY ShiftMember
    <3>2. x \in Nat => x + 0 = x
      OBVIOUS
    <3> QED
      BY <2>1, <3>1, <3>2
  <2> QED
    BY <2>2
<1> QED
  BY <1>1, <1>2, <1>3

\* A number made of eight bits, and the bits of a number.
Numeral(b0, b1, b2, b3, b4, b5, b6, b7) ==
  b0 + 2*b1 + 4*b2 + 8*b3 + 16*b4 + 32*b5 + 64*b6 + 128*b7

Digit == {0, 1}

HasBits(N, b0, b1, b2, b3, b4, b5, b6, b7) ==
  /\ N \in 0..255
  /\ (N \div 1) % 2 = b0 /\ (N \div 2) % 2 = b1 /\ (N \div 4) % 2 = b2
  /\ (N \div 8) % 2 = b3 /\ (N \div 16) % 2 = b4 /\ (N \div 32) % 2 = b5
  /\ (N \div 64) % 2 = b6 /\ (N \div 128) % 2 = b7

LEMMA BitsOfNumber ==
  ASSUME NEW b0 \in Digit, NEW b1 \in Digit, NEW b2 \in Digit, NEW b3 \in Digit,
         NEW b4 \in Digit, NEW b5 \in Digit, NEW b6 \in Digit, NEW b7 \in Digit
  PROVE  HasBits(Numeral(b0, b1, b2, b3, b4, b5, b6, b7), b0, b1, b2, b3, b4, b5, b6, b7)
<1> DEFINE N == Numeral(b0, b1, b2, b3, b4, b5, b6, b7)
<1>0. N \in Int /\ N \in 0..255
  BY DEF Numeral, Digit
<1>1. (N \div 1) % 2 = b0
  BY DEF Numeral, Digit
<1>2. (N \div 2) % 2 = b1
  BY DEF Numeral, Digit
<1>3. (N \div 4) % 2 = b2
  BY DEF Numeral, Digit
<1>4. (N \div 8) % 2 = b3
  BY DEF Numeral, Digit
<1>5. (N \div 16) % 2 = b4
  BY DEF Numeral, Digit
<1>6. (N \div 32) % 2 = b5
  BY DEF Numeral, Digit
<1>7. (N \div 64) % 2 = b6
  BY DEF Numeral, Digit
<1>8. (N \div 128) % 2 = b7
  BY DEF Numeral, Digit
<1> HIDE DEF N
<1>9. HasBits(N, b0, b1, b2, b3, b4, b5, b6, b7)
  BY <1>0, <1>1, <1>2, <1>3, <1>4, <1>5, <1>6, <1>7, <1>8, Zenon DEF HasBits
<1> QED
  BY <1>9 DEF N

LEMMA ByteAtBits ==
  ASSUME NEW w \in BitSets, NEW n \in Nat
  PROVE  /\ ByteAt(w, n) \in Byte
         /\ Bits(ByteAt(w, n)) = {i \in 0..7 : n + i \in w}
<1> DEFINE b(i) == IF n + i \in w THEN 1 ELSE 0
<1>1. ByteAt(w, n) = Numeral(b(0), b(1), b(2), b(3), b(4), b(5), b(6), b(7))
  BY DEF ByteAt, Weight, Numeral
<1>2. \A i \in 0..7 : b(i) \in {0, 1} /\ (b(i) = 1 <=> n + i \in w)
  OBVIOUS
<1> HIDE DEF b
<1>3. PICK N : N = ByteAt(w, n)
  OBVIOUS
<1>4. HasBits(N, b(0), b(1), b(2), b(3), b(4), b(5), b(6), b(7))
  <2>1. /\ b(0) \in Digit /\ b(1) \in Digit /\ b(2) \in Digit /\ b(3) \in Digit
        /\ b(4) \in Digit /\ b(5) \in Digit /\ b(6) \in Digit /\ b(7) \in Digit
    BY <1>2 DEF Digit
  <2>2. HasBits(Numeral(b(0), b(1), b(2), b(3), b(4), b(5), b(6), b(7)),
                b(0), b(1), b(2), b(3), b(4), b(5), b(6), b(7))
    BY <2>1, BitsOfNumber, Zenon
  <2> QED
    BY <1>1, <1>3, <2>2
<1>5. /\ (N \div Weight(0)) % 2 = b(0) /\ (N \div Weight(1)) % 2 = b(1)
      /\ (N \div Weight(2)) % 2 = b(2) /\ (N \div Weight(3)) % 2 = b(3)
      /\ (N \div Weight(4)) % 2 = b(4) /\ (N \div Weight(5)) % 2 = b(5)
      /\ (N \div Weight(6)) % 2 = b(6) /\ (N \div Weight(7)) % 2 = b(7)
  <2>1. /\ Weight(0) = 1 /\ Weight(1) = 2 /\ Weight(2) = 4 /\ Weight(3) = 8
        /\ Weight(4) = 16 /\ Weight(5) = 32 /\ Weight(6) = 64 /\ Weight(7) = 128
    BY DEF Weight
  <2> QED
    BY <1>4, <2>1 DEF HasBits
<1>6. \A i \in 0..7 : (N \div Weight(i)) % 2 = b(i)
  <2>1. \A i \in 0..7 : i = 0 \/ i = 1 \/ i = 2 \/ i = 3 \/ i = 4 \/ i = 5 \/ i = 6 \/ i = 7
    OBVIOUS
  <2> QED
    BY <1>5, <2>1, Zenon
<1>7. Bits(N) = {i \in 0..7 : n + i \in w}
  BY <1>2, <1>6, Zenon DEF Bits
<1> QED
  BY <1>3, <1>4, <1>7 DEF Byte, HasBits

LEMMA BitsWord == \A byte : Bits(byte) \in BitSets
BY DEF Bits, BitSets, Bit

-----------------------------------------------------------------------------
(* The division.                                                           *)

LEMMA DivideWord == \A w \in BitSets : Divide(w) \in BitSets
<1>1. Poly \in BitSets
  BY DEF Poly, BitSets, Bit
<1> QED
  BY <1>1, XorWord, ShiftWord DEF Divide

LEMMA DivideLinear ==
  ASSUME NEW v \in BitSets, NEW w \in BitSets
  PROVE  Divide(Xor(v, w)) = Xor(Divide(v), Divide(w))
<1>1. 0 \in Xor(v, w) <=> ~(0 \in v <=> 0 \in w)
  BY XorMember
<1>2. PICK a, b : a = ShiftRight(v, 1) /\ b = ShiftRight(w, 1)
  OBVIOUS
<1>3. ShiftRight(Xor(v, w), 1) = Xor(a, b)
  BY <1>2, ShiftLaws
<1>4. /\ Xor(Xor(a, Poly), b) = Xor(Xor(a, b), Poly)
      /\ Xor(a, Xor(b, Poly)) = Xor(Xor(a, b), Poly)
      /\ Xor(Xor(a, Poly), Xor(b, Poly)) = Xor(a, b)
  <2>1. \A y : /\ y \in Xor(Xor(a, Poly), b) <=> y \in Xor(Xor(a, b), Poly)
               /\ y \in Xor(a, Xor(b, Poly)) <=> y \in Xor(Xor(a, b), Poly)
               /\ y \in Xor(Xor(a, Poly), Xor(b, Poly)) <=> y \in Xor(a, b)
    BY XorMember
  <2> QED
    BY <2>1
<1> QED
  BY <1>1, <1>2, <1>3, <1>4, Zenon DEF Divide

\* The division of a byte is eight steps.
LEMMA EightSteps ==
  ASSUME NEW w \in BitSets
  PROVE  DivideByte[w] = Divide(Divide(Divide(Divide(Divide(Divide(Divide(Divide(w))))))))
<1>1. PICK step : step = [a \in (1..8) \X BitSets |-> Divide(a[2])]
  OBVIOUS
<1>2. step \in [(1..8) \X BitSets -> BitSets]
  BY <1>1, DivideWord
<1>3. PICK f \in [0..8 -> BitSets] : Runs(f, w, step, 8)
  <2> HIDE <1>1
  <2>1. 8 \in Nat
    OBVIOUS
  <2> QED
    BY <1>2, <2>1, Recursion
<1>4. ASSUME NEW n \in 1..8 PROVE f[n] = Divide(f[n - 1])
  <2>1. f[n - 1] \in BitSets /\ f[n] = step[<<n, f[n - 1]>>]
    BY <1>3 DEF Runs
  <2> QED
    BY <1>1, <2>1
<1>5. f = [j \in 0..8 |-> IF j = 0 THEN w ELSE Divide(f[j - 1])]
  <2>1. f[0] = w
    BY <1>3 DEF Runs
  <2>2. \A n \in 0..8 : n # 0 => n \in 1..8
    OBVIOUS
  <2> QED
    BY <1>4, <2>1, <2>2
<1>6. PICK g : /\ g = [j \in 0..8 |-> IF j = 0 THEN w ELSE Divide(g[j - 1])]
               /\ DivideByte[w] = g[8]
  BY <1>5 DEF DivideByte, BitSets
<1>7. \A j \in 0..8 : g[j] = IF j = 0 THEN w ELSE Divide(g[j - 1])
  BY <1>6, Zenon
<1>8. /\ g[0] = w /\ g[1] = Divide(g[0]) /\ g[2] = Divide(g[1]) /\ g[3] = Divide(g[2])
      /\ g[4] = Divide(g[3]) /\ g[5] = Divide(g[4]) /\ g[6] = Divide(g[5])
      /\ g[7] = Divide(g[6]) /\ g[8] = Divide(g[7])
  BY <1>7
<1> QED
  BY <1>6, <1>8

LEMMA DivideByteWord == \A w \in BitSets : DivideByte[w] \in BitSets
BY EightSteps, DivideWord

LEMMA DivideByteLinear ==
  ASSUME NEW v \in BitSets, NEW w \in BitSets
  PROVE  DivideByte[Xor(v, w)] = Xor(DivideByte[v], DivideByte[w])
<1>1. Xor(v, w) \in BitSets
  BY XorWord
<1>2. PICK v1 \in BitSets, w1 \in BitSets : v1 = Divide(v) /\ w1 = Divide(w)
  BY DivideWord
<1>3. PICK v2 \in BitSets, w2 \in BitSets : v2 = Divide(v1) /\ w2 = Divide(w1)
  BY DivideWord
<1>4. PICK v3 \in BitSets, w3 \in BitSets : v3 = Divide(v2) /\ w3 = Divide(w2)
  BY DivideWord
<1>5. PICK v4 \in BitSets, w4 \in BitSets : v4 = Divide(v3) /\ w4 = Divide(w3)
  BY DivideWord
<1>6. PICK v5 \in BitSets, w5 \in BitSets : v5 = Divide(v4) /\ w5 = Divide(w4)
  BY DivideWord
<1>7. PICK v6 \in BitSets, w6 \in BitSets : v6 = Divide(v5) /\ w6 = Divide(w5)
  BY DivideWord
<1>8. PICK v7 \in BitSets, w7 \in BitSets : v7 = Divide(v6) /\ w7 = Divide(w6)
  BY DivideWord
<1>9. /\ Divide(Xor(v, w)) = Xor(v1, w1) /\ Divide(Xor(v1, w1)) = Xor(v2, w2)
      /\ Divide(Xor(v2, w2)) = Xor(v3, w3) /\ Divide(Xor(v3, w3)) = Xor(v4, w4)
      /\ Divide(Xor(v4, w4)) = Xor(v5, w5) /\ Divide(Xor(v5, w5)) = Xor(v6, w6)
      /\ Divide(Xor(v6, w6)) = Xor(v7, w7)
      /\ Divide(Xor(v7, w7)) = Xor(Divide(v7), Divide(w7))
  BY <1>2, <1>3, <1>4, <1>5, <1>6, <1>7, <1>8, DivideLinear
<1>10. DivideByte[Xor(v, w)] = Xor(Divide(v7), Divide(w7))
  BY <1>1, <1>9, EightSteps
<1>11. DivideByte[v] = Divide(v7) /\ DivideByte[w] = Divide(w7)
  BY <1>2, <1>3, <1>4, <1>5, <1>6, <1>7, <1>8, EightSteps
<1> QED
  BY <1>10, <1>11

\* A word whose low byte is zero is only shifted.
LEMMA DivideByteShifts ==
  ASSUME NEW w \in BitSets, \A i \in 0..7 : i \notin w
  PROVE  DivideByte[w] = ShiftRight(w, 8)
<1>1. ASSUME NEW n \in 0..7 PROVE Divide(ShiftRight(w, n)) = ShiftRight(w, n + 1)
  <2>1. 0 \notin ShiftRight(w, n)
    <3>1. 0 \in ShiftRight(w, n) <=> 0 \in Nat /\ 0 + n \in w
      BY ShiftMember
    <3> QED
      BY <3>1
  <2>2. n \in Nat /\ 1 \in Nat
    OBVIOUS
  <2>3. ShiftRight(ShiftRight(w, n), 1) = ShiftRight(w, n + 1)
    BY <2>2, ShiftLaws
  <2> QED
    BY <2>1, <2>3 DEF Divide
<1>2. ShiftRight(w, 0) = w
  BY ShiftLaws
<1>3. /\ Divide(ShiftRight(w, 0)) = ShiftRight(w, 1)
      /\ Divide(ShiftRight(w, 1)) = ShiftRight(w, 2)
      /\ Divide(ShiftRight(w, 2)) = ShiftRight(w, 3)
      /\ Divide(ShiftRight(w, 3)) = ShiftRight(w, 4)
      /\ Divide(ShiftRight(w, 4)) = ShiftRight(w, 5)
      /\ Divide(ShiftRight(w, 5)) = ShiftRight(w, 6)
      /\ Divide(ShiftRight(w, 6)) = ShiftRight(w, 7)
      /\ Divide(ShiftRight(w, 7)) = ShiftRight(w, 8)
  <2>1. \A n \in 0..7 : Divide(ShiftRight(w, n)) = ShiftRight(w, n + 1)
    BY <1>1
  <2>2. /\ 0 \in 0..7 /\ 1 \in 0..7 /\ 2 \in 0..7 /\ 3 \in 0..7 /\ 4 \in 0..7 /\ 5 \in 0..7
        /\ 6 \in 0..7 /\ 7 \in 0..7 /\ 0 + 1 = 1 /\ 1 + 1 = 2 /\ 2 + 1 = 3 /\ 3 + 1 = 4
        /\ 4 + 1 = 5 /\ 5 + 1 = 6 /\ 6 + 1 = 7 /\ 7 + 1 = 8
    OBVIOUS
  <2> HIDE <1>1
  <2> QED
    BY <2>1, <2>2
<1> QED
  BY <1>2, <1>3, EightSteps

LEMMA TableItself == \A f : Table(f) = f
BY DEF Table

LEMMA FirstTableEntry ==
  /\ FirstTable \in [Byte -> BitSets]
  /\ \A i \in Byte : FirstTable[i] = DivideByte[Bits(i)]
<1>1. FirstTable = [i \in Byte |-> DivideByte[Bits(i)]]
  BY TableItself DEF FirstTable
<1>2. \A i \in Byte : DivideByte[Bits(i)] \in BitSets
  BY BitsWord, DivideByteWord
<1> QED
  BY <1>1, <1>2

\* One byte further, with the table.
LEMMA WithTable ==
  ASSUME NEW w \in BitSets
  PROVE  DivideByte[w] = Xor(ShiftRight(w, 8), FirstTable[ByteAt(w, 0)])
<1> DEFINE low == {i \in 0..7 : i \in w}
           high == {i \in w : i \notin 0..7}
<1>1. low \in BitSets /\ high \in BitSets /\ w = Xor(high, low)
  BY DEF BitSets, Xor
<1>2. ByteAt(w, 0) \in Byte /\ Bits(ByteAt(w, 0)) = low
  <2>1. \A i \in 0..7 : 0 + i = i
    OBVIOUS
  <2> QED
    BY <2>1, ByteAtBits
<1>3. FirstTable[ByteAt(w, 0)] = DivideByte[low]
  BY <1>2, FirstTableEntry
<1>4. ShiftRight(high, 8) = ShiftRight(w, 8)
  <2>1. ASSUME NEW x PROVE x \in ShiftRight(high, 8) <=> x \in ShiftRight(w, 8)
    <3>1. x \in ShiftRight(high, 8) <=> x \in Nat /\ x + 8 \in high
      BY <1>1, ShiftMember
    <3>2. x \in ShiftRight(w, 8) <=> x \in Nat /\ x + 8 \in w
      BY ShiftMember
    <3> QED
      BY <3>1, <3>2
  <2> QED
    BY <2>1
<1>5. DivideByte[high] = ShiftRight(high, 8)
  <2>1. \A i \in 0..7 : i \notin high
    OBVIOUS
  <2> QED
    BY <1>1, <2>1, DivideByteShifts
<1> HIDE DEF low, high
<1>6. DivideByte[Xor(high, low)] = Xor(DivideByte[high], DivideByte[low])
  BY <1>1, DivideByteLinear
<1> QED
  BY <1>1, <1>3, <1>4, <1>5, <1>6

-----------------------------------------------------------------------------
(* The tables.                                                             *)

LEMMA NextTableEntry ==
  ASSUME NEW t \in [Byte -> BitSets]
  PROVE  /\ NextTable(t) \in [Byte -> BitSets]
         /\ \A i \in Byte : NextTable(t)[i] = DivideByte[t[i]]
<1>1. NextTable(t) = [i \in Byte |-> Xor(ShiftRight(t[i], 8), FirstTable[ByteAt(t[i], 0)])]
  BY TableItself DEF NextTable
<1>2. \A i \in Byte : DivideByte[t[i]] = Xor(ShiftRight(t[i], 8), FirstTable[ByteAt(t[i], 0)])
  BY WithTable
<1>3. \A i \in Byte : DivideByte[t[i]] \in BitSets
  BY DivideByteWord
<1> QED
  BY <1>1, <1>2, <1>3

\* Each table takes the one before it a byte further.
LEMMA Tables ==
  /\ CrcTable \in [0..15 -> [Byte -> BitSets]]
  /\ CrcTable[0] = FirstTable
  /\ \A k \in 1..15, i \in Byte : CrcTable[k][i] = DivideByte[CrcTable[k - 1][i]]
<1> DEFINE T == [Byte -> BitSets]
<1>1. PICK step : step = [a \in (1..15) \X T |-> NextTable(a[2])]
  OBVIOUS
<1>2. FirstTable \in T /\ step \in [(1..15) \X T -> T]
  BY <1>1, FirstTableEntry, NextTableEntry
<1>3. PICK f \in [0..15 -> T] : Runs(f, FirstTable, step, 15)
  <2>1. 15 \in Nat
    OBVIOUS
  <2> HIDE <1>1 DEF T
  <2> QED
    BY <1>2, <2>1, Recursion
<1>4. ASSUME NEW n \in 1..15 PROVE f[n] = NextTable(f[n - 1])
  <2>1. f[n - 1] \in T /\ f[n] = step[<<n, f[n - 1]>>]
    BY <1>3, SMTT(30) DEF Runs
  <2> HIDE DEF T
  <2> QED
    BY <1>1, <2>1
<1>5. f = [k \in 0..15 |-> IF k = 0 THEN FirstTable ELSE NextTable(f[k - 1])]
  <2>1. f[0] = FirstTable
    BY <1>3 DEF Runs
  <2>2. \A n \in 0..15 : n # 0 => n \in 1..15
    OBVIOUS
  <2> HIDE DEF T
  <2> QED
    BY <1>4, <2>1, <2>2
<1>6. PICK g : /\ g = [k \in 0..15 |-> IF k = 0 THEN FirstTable ELSE NextTable(g[k - 1])]
               /\ CrcTable = Table([k \in 0..15 |-> g[k]])
  BY <1>5 DEF CrcTable
<1>7. \A k \in 0..15 : g[k] = IF k = 0 THEN FirstTable ELSE NextTable(g[k - 1])
  BY <1>6, Zenon
<1>8. CrcTable = [k \in 0..15 |-> g[k]]
  BY <1>6, TableItself
<1>9. g[0] = FirstTable /\ \A k \in 1..15 : g[k] = NextTable(g[k - 1])
  BY <1>7
<1> DEFINE S == {k \in 0..15 : g[k] \in T}
<1>10. 0 \in S
  BY <1>2, <1>9
<1>11. \A k \in 1..15 : k - 1 \in S => k \in S
  <2> SUFFICES ASSUME NEW k \in 1..15, k - 1 \in S PROVE k \in S
    OBVIOUS
  <2>1. g[k - 1] \in T /\ g[k] = NextTable(g[k - 1]) /\ k \in 0..15
    BY <1>9
  <2> QED
    BY <2>1, NextTableEntry
<1>12. 15 \in Nat
  OBVIOUS
<1> HIDE DEF S
<1>13. 0..15 \subseteq S
  BY <1>10, <1>11, <1>12, StepByStep
<1>14. \A k \in 0..15 : g[k] \in T
  BY <1>13 DEF S
<1>15. \A k \in 1..15, i \in Byte : g[k][i] = DivideByte[g[k - 1][i]]
  <2> SUFFICES ASSUME NEW k \in 1..15, NEW i \in Byte PROVE g[k][i] = DivideByte[g[k - 1][i]]
    OBVIOUS
  <2>1. k - 1 \in 0..15
    OBVIOUS
  <2>2. g[k - 1] \in T
    BY <1>14, <2>1
  <2>3. g[k] = NextTable(g[k - 1])
    BY <1>9
  <2> QED
    BY <2>2, <2>3, NextTableEntry
<1> QED
  BY <1>8, <1>9, <1>14, <1>15

\* The running word and a byte, divided.
LEMMA OneByte ==
  ASSUME NEW w \in BitSets, NEW byte \in Byte
  PROVE  Crc32Byte(w, byte) = DivideByte[Xor(w, Bits(byte))]
<1>1. PICK v \in BitSets : v = Xor(w, Bits(byte))
  BY BitsWord, XorWord
<1>2. DivideByte[v] = Xor(ShiftRight(v, 8), FirstTable[ByteAt(v, 0)])
  BY WithTable
<1>3. ShiftRight(v, 8) = ShiftRight(w, 8)
  <2>1. ShiftRight(v, 8) = Xor(ShiftRight(w, 8), ShiftRight(Bits(byte), 8))
    BY <1>1, BitsWord, ShiftLaws
  <2>2. ASSUME NEW x \in ShiftRight(Bits(byte), 8) PROVE FALSE
    <3>1. x \in Nat /\ x + 8 \in Bits(byte)
      BY BitsWord, ShiftMember
    <3>2. x + 8 \in 0..7
      BY <3>1 DEF Bits
    <3> QED
      BY <3>1, <3>2
  <2>3. ShiftRight(Bits(byte), 8) = {}
    BY <2>2
  <2> QED
    BY <2>1, <2>3, XorLaws
<1> QED
  BY <1>1, <1>2, <1>3, Tables DEF Crc32Byte

-----------------------------------------------------------------------------
(* Sixteen bytes at once.                                                  *)

\* How a word goes on over bytes that are zero.
Powers(f) ==
  /\ f \in [0..16 -> [BitSets -> BitSets]]
  /\ \A w \in BitSets : f[0][w] = w
  /\ \A n \in 1..16, w \in BitSets : f[n][w] = DivideByte[f[n - 1][w]]

LEMMA PowersExist == \E f : Powers(f)
<1> DEFINE T == [BitSets -> BitSets]
           start == [w \in BitSets |-> w]
<1>1. PICK step : step = [a \in (1..16) \X T |-> [w \in BitSets |-> DivideByte[a[2][w]]]]
  OBVIOUS
<1>2. start \in T
  OBVIOUS
<1>3. step \in [(1..16) \X T -> T]
  <2>1. \A t \in T : [w \in BitSets |-> DivideByte[t[w]]] \in T
    BY DivideByteWord
  <2> HIDE DEF T
  <2> QED
    BY <1>1, <2>1
<1>4. PICK f \in [0..16 -> T] : Runs(f, start, step, 16)
  <2>1. 16 \in Nat
    OBVIOUS
  <2> HIDE <1>1 DEF T, start
  <2> QED
    BY <1>2, <1>3, <2>1, Recursion
<1>5. ASSUME NEW n \in 1..16 PROVE f[n] = [w \in BitSets |-> DivideByte[f[n - 1][w]]]
  <2>1. f[n - 1] \in T /\ f[n] = step[<<n, f[n - 1]>>]
    BY <1>4 DEF Runs
  <2> HIDE DEF T
  <2> QED
    BY <1>1, <2>1
<1>6. f[0] = start
  BY <1>4 DEF Runs
<1>7. ASSUME NEW n \in 1..16, NEW w \in BitSets PROVE f[n][w] = DivideByte[f[n - 1][w]]
  <2>1. f[n] = [w_ \in BitSets |-> DivideByte[f[n - 1][w_]]]
    BY <1>5
  <2> HIDE <1>5
  <2> QED
    BY <2>1, Zenon
<1>8. \A w \in BitSets : f[0][w] = w
  BY <1>6
<1> HIDE DEF start
<1> QED
  BY <1>4, <1>7, <1>8, ZenonT(30) DEF Powers

LEMMA PowerOf ==
  ASSUME NEW f, Powers(f), NEW w \in BitSets
  PROVE  f[0][w] = w /\ \A n \in 1..16 : f[n][w] = DivideByte[f[n - 1][w]]
BY DEF Powers

Linear(f) ==
  \A n \in 0..16 : \A v, w \in BitSets : f[n][Xor(v, w)] = Xor(f[n][v], f[n][w])

LEMMA PowersLinear == ASSUME NEW f, Powers(f) PROVE Linear(f)
<1> DEFINE S == {n \in 0..16 : \A v, w \in BitSets : f[n][Xor(v, w)] = Xor(f[n][v], f[n][w])}
<1>1. \A n \in 0..16 : \A v \in BitSets : f[n][v] \in BitSets
  BY ZenonT(30) DEF Powers
<1>2. 0 \in S
  BY XorWord DEF Powers
<1>3. ASSUME NEW n \in 1..16, n - 1 \in S PROVE n \in S
  <2> SUFFICES ASSUME NEW v \in BitSets, NEW w \in BitSets
               PROVE  f[n][Xor(v, w)] = Xor(f[n][v], f[n][w])
    OBVIOUS
  <2>1. n - 1 \in 0..16 /\ Xor(v, w) \in BitSets
    BY XorWord
  <2>2. f[n][Xor(v, w)] = DivideByte[f[n - 1][Xor(v, w)]]
    BY <2>1 DEF Powers
  <2>3. f[n - 1][Xor(v, w)] = Xor(f[n - 1][v], f[n - 1][w])
    BY <1>3
  <2>4. f[n - 1][v] \in BitSets /\ f[n - 1][w] \in BitSets
    BY <1>1, <2>1
  <2>5. f[n][v] = DivideByte[f[n - 1][v]] /\ f[n][w] = DivideByte[f[n - 1][w]]
    BY DEF Powers
  <2> QED
    BY <2>2, <2>3, <2>4, <2>5, DivideByteLinear
<1>4. 16 \in Nat
  OBVIOUS
<1> HIDE DEF S
<1>5. 0..16 \subseteq S
  BY <1>2, <1>3, <1>4, StepByStep
<1> QED
  BY <1>5 DEF S, Linear

\* The first byte may as well go first.
LEMMA PowersFirst ==
  ASSUME NEW f, Powers(f)
  PROVE  \A n \in 1..16 : \A w \in BitSets : f[n][w] = f[n - 1][DivideByte[w]]
<1> DEFINE S == {n \in 0..15 : \A w \in BitSets : f[n + 1][w] = f[n][DivideByte[w]]}
<1>1. 0 \in S
  <2>1. \A w \in BitSets : f[1][w] = DivideByte[f[1 - 1][w]]
    BY DEF Powers
  <2>2. ASSUME NEW w \in BitSets
        PROVE  f[1 - 1][w] = w /\ f[0][DivideByte[w]] = DivideByte[w]
    <3>1. DivideByte[w] \in BitSets
      BY DivideByteWord
    <3> QED
      BY <3>1, PowerOf
  <2> QED
    BY <2>1, <2>2
<1>2. ASSUME NEW n \in 1..15, n - 1 \in S PROVE n \in S
  <2> SUFFICES ASSUME NEW w \in BitSets PROVE f[n + 1][w] = f[n][DivideByte[w]]
    OBVIOUS
  <2>1. n + 1 \in 1..16 /\ n \in 1..16 /\ (n + 1) - 1 = n /\ (n - 1) + 1 = n
    OBVIOUS
  <2>2. f[n + 1][w] = DivideByte[f[n][w]]
    BY <2>1, ZenonT(30) DEF Powers
  <2>3. f[n][w] = f[n - 1][DivideByte[w]]
    BY <1>2, <2>1
  <2>4. f[n][DivideByte[w]] = DivideByte[f[n - 1][DivideByte[w]]]
    BY <2>1, DivideByteWord DEF Powers
  <2> QED
    BY <2>2, <2>3, <2>4
<1>3. 15 \in Nat
  OBVIOUS
<1> HIDE DEF S
<1>4. 0..15 \subseteq S
  BY <1>1, <1>2, <1>3, StepByStep
<1>5. ASSUME NEW n \in 1..16, NEW w \in BitSets PROVE f[n][w] = f[n - 1][DivideByte[w]]
  <2>1. n - 1 \in 0..15 /\ (n - 1) + 1 = n
    OBVIOUS
  <2> QED
    BY <1>4, <2>1 DEF S
<1> QED
  BY <1>5

\* The table behind k others takes a byte k + 1 further.
LEMMA TablesArePowers ==
  ASSUME NEW f, Powers(f)
  PROVE  \A k \in 0..15 : \A i \in Byte : CrcTable[k][i] = f[k + 1][Bits(i)]
<1> DEFINE S == {k \in 0..15 : \A i \in Byte : CrcTable[k][i] = f[k + 1][Bits(i)]}
<1>1. 0 \in S
  <2> SUFFICES ASSUME NEW i \in Byte PROVE CrcTable[0][i] = f[1][Bits(i)]
    OBVIOUS
  <2>1. f[1][Bits(i)] = DivideByte[f[1 - 1][Bits(i)]]
    BY BitsWord DEF Powers
  <2>2. f[1 - 1][Bits(i)] = Bits(i)
    BY BitsWord DEF Powers
  <2> QED
    BY <2>1, <2>2, Tables, FirstTableEntry
<1>2. ASSUME NEW k \in 1..15, k - 1 \in S PROVE k \in S
  <2> SUFFICES ASSUME NEW i \in Byte PROVE CrcTable[k][i] = f[k + 1][Bits(i)]
    OBVIOUS
  <2>1. CrcTable[k][i] = DivideByte[CrcTable[k - 1][i]]
    BY Tables
  <2>2. k + 1 \in 1..16 /\ (k + 1) - 1 = k /\ (k - 1) + 1 = k
    OBVIOUS
  <2>3. CrcTable[k - 1][i] = f[k][Bits(i)]
    BY <1>2, <2>2
  <2>4. f[k + 1][Bits(i)] = DivideByte[f[k][Bits(i)]]
    <3>1. Bits(i) \in BitSets
      BY BitsWord
    <3>2. \A n \in 1..16 : f[n][Bits(i)] = DivideByte[f[n - 1][Bits(i)]]
      BY <3>1, PowerOf
    <3> QED
      BY <2>2, <3>2
  <2> QED
    BY <2>1, <2>3, <2>4
<1>3. 15 \in Nat
  OBVIOUS
<1> HIDE DEF S
<1>4. 0..15 \subseteq S
  BY <1>1, <1>2, <1>3, StepByStep
<1> QED
  BY <1>4 DEF S

\* The remainders of a division of n bytes, from w on.
Divides(g, data, w, n) ==
  /\ g[0] = w
  /\ \A i \in 1..n : g[i] = DivideByte[Xor(g[i - 1], Bits(data[i]))]

LEMMA BitByBitDivides ==
  ASSUME NEW data \in Seq(Byte), NEW w \in BitSets
  PROVE  \E g \in [0..Len(data) -> BitSets] :
           Divides(g, data, w, Len(data)) /\ BitByBit(data, w) = g[Len(data)]
<1>1. PICK N \in Nat : N = Len(data)
  OBVIOUS
<1>2. PICK step : step = [a \in (1..N) \X BitSets |-> DivideByte[Xor(a[2], Bits(data[a[1]]))]]
  OBVIOUS
<1>3. step \in [(1..N) \X BitSets -> BitSets]
  <2>1. \A v \in BitSets : \A byte : DivideByte[Xor(v, Bits(byte))] \in BitSets
    BY BitsWord, XorWord, DivideByteWord
  <2> QED
    BY <1>2, <2>1
<1>4. PICK f \in [0..N -> BitSets] : Runs(f, w, step, N)
  <2> HIDE <1>2
  <2> QED
    BY <1>3, Recursion
<1>5. ASSUME NEW n \in 1..N PROVE f[n] = DivideByte[Xor(f[n - 1], Bits(data[n]))]
  <2>1. f[n - 1] \in BitSets /\ f[n] = step[<<n, f[n - 1]>>]
    BY <1>4 DEF Runs
  <2> QED
    BY <1>2, <2>1
<1>6. f[0] = w
  BY <1>4 DEF Runs
<1>7. f = [n \in 0..N |-> IF n = 0 THEN w ELSE DivideByte[Xor(f[n - 1], Bits(data[n]))]]
  <2>1. \A n \in 0..N : n # 0 => n \in 1..N
    OBVIOUS
  <2> QED
    BY <1>5, <1>6, <2>1
<1>8. PICK g : /\ g = [n \in 0..N |->
                         IF n = 0 THEN w ELSE DivideByte[Xor(g[n - 1], Bits(data[n]))]]
               /\ BitByBit(data, w) = g[N]
  BY <1>1, <1>7 DEF BitByBit
<1>9. \A n \in 0..N :
        g[n] = IF n = 0 THEN w ELSE DivideByte[Xor(g[n - 1], Bits(data[n]))]
  BY <1>8, Zenon
<1>10. g[0] = w
  BY <1>9
<1>11. ASSUME NEW n \in 1..N PROVE g[n] = DivideByte[Xor(g[n - 1], Bits(data[n]))]
  <2>1. n \in 0..N /\ n # 0
    OBVIOUS
  <2> QED
    BY <1>9, <2>1, Zenon
<1>12. Divides(g, data, w, N)
  BY <1>10, <1>11 DEF Divides
<1>13. g \in [0..N -> BitSets]
  <2> DEFINE S == {n \in 0..N : g[n] \in BitSets}
  <2>1. 0 \in S
    BY <1>10
  <2>2. ASSUME NEW n \in 1..N, n - 1 \in S PROVE n \in S
    <3>1. g[n - 1] \in BitSets /\ n \in 0..N
      BY <2>2
    <3> QED
      BY <1>11, <3>1, BitsWord, XorWord, DivideByteWord
  <2> HIDE DEF S
  <2>3. 0..N \subseteq S
    BY <2>1, <2>2, StepByStep
  <2>4. \A n \in 0..N : g[n] \in BitSets
    BY <2>3 DEF S
  <2>5. g = [n \in 0..N |-> g[n]]
    BY <1>8
  <2> QED
    BY <2>4, <2>5
<1> QED
  BY <1>1, <1>8, <1>12, <1>13

\* There is but one division.
LEMMA OneDivision ==
  ASSUME NEW data, NEW w, NEW n \in Nat, NEW g, NEW h,
         Divides(g, data, w, n), Divides(h, data, w, n)
  PROVE  \A i \in 0..n : g[i] = h[i]
<1> DEFINE S == {i \in 0..n : g[i] = h[i]}
<1>1. 0 \in S
  BY DEF Divides
<1>2. ASSUME NEW i \in 1..n, i - 1 \in S PROVE i \in S
  BY <1>2 DEF Divides
<1> HIDE DEF S
<1>3. 0..n \subseteq S
  BY <1>1, <1>2, StepByStep
<1> QED
  BY <1>3 DEF S

LEMMA Xor16Sums ==
  ASSUME NEW x \in [1..16 -> BitSets]
  PROVE  \E u \in [0..16 -> BitSets] :
           /\ u[0] = {} /\ \A k \in 1..16 : u[k] = Xor(u[k - 1], x[k])
           /\ Xor16(x) = u[16]
<1>1. PICK step : step = [a \in (1..16) \X BitSets |-> Xor(a[2], x[a[1]])]
  OBVIOUS
<1>2. step \in [(1..16) \X BitSets -> BitSets]
  <2>1. \A v \in BitSets, k \in 1..16 : Xor(v, x[k]) \in BitSets
    BY XorWord
  <2> QED
    BY <1>1, <2>1
<1>a. {} \in BitSets
  BY DEF BitSets
<1>3. PICK f \in [0..16 -> BitSets] : Runs(f, {}, step, 16)
  <2>1. 16 \in Nat
    OBVIOUS
  <2> HIDE <1>1
  <2> QED
    BY <1>2, <1>a, <2>1, Recursion
<1>4. ASSUME NEW n \in 1..16 PROVE f[n] = Xor(f[n - 1], x[n])
  <2>1. f[n - 1] \in BitSets /\ f[n] = step[<<n, f[n - 1]>>]
    BY <1>3 DEF Runs
  <2> QED
    BY <1>1, <2>1
<1>5. f[0] = {}
  BY <1>3 DEF Runs
<1>6. f = [k \in 0..16 |-> IF k = 0 THEN {} ELSE Xor(f[k - 1], x[k])]
  <2>1. \A n \in 0..16 : n # 0 => n \in 1..16
    OBVIOUS
  <2> QED
    BY <1>4, <1>5, <2>1
<1>7. PICK g : /\ g = [k \in 0..16 |-> IF k = 0 THEN {} ELSE Xor(g[k - 1], x[k])]
               /\ Xor16(x) = g[16]
  BY <1>6 DEF Xor16
<1>8. \A k \in 0..16 : g[k] = IF k = 0 THEN {} ELSE Xor(g[k - 1], x[k])
  BY <1>7, Zenon
<1>9. g[0] = {} /\ \A k \in 1..16 : g[k] = Xor(g[k - 1], x[k])
  BY <1>8
<1>10. \A k \in 0..16 : g[k] = f[k]
  <2> DEFINE S == {k \in 0..16 : g[k] = f[k]}
  <2>1. 0 \in S
    BY <1>5, <1>9
  <2>2. \A k \in 1..16 : k - 1 \in S => k \in S
    BY <1>4, <1>9
  <2>3. 16 \in Nat
    OBVIOUS
  <2> HIDE DEF S
  <2>4. 0..16 \subseteq S
    BY <2>1, <2>2, <2>3, StepByStep
  <2> QED
    BY <2>4 DEF S
<1> QED
  BY <1>4, <1>5, <1>7, <1>10

\* The bytes of the first four and of the running word, taken together.
LEMMA FirstBytes ==
  ASSUME NEW b \in Seq(Byte), Len(b) = 16, NEW w \in BitSets, NEW k \in 1..4
  PROVE  LET w0 == Xor(FromLeBytes(b), w) IN
           /\ ByteAt(w0, 8 * (k - 1)) \in Byte
           /\ Bits(ByteAt(w0, 8 * (k - 1)))
                = Xor(Bits(b[k]), {i \in 0..7 : 8 * (k - 1) + i \in w})
<1>1. PICK v : v = FromLeBytes(b)
  OBVIOUS
<1>2. ASSUME NEW i \in 0..7 PROVE 8 * (k - 1) + i \in v <=> i \in Bits(b[k])
  <2>1. ASSUME NEW j \in 1..4, NEW i_ \in Bits(b[j]), 8 * (k - 1) + i = 8 * (j - 1) + i_
        PROVE  j = k /\ i_ = i
    <3>1. i_ \in 0..7
      BY DEF Bits
    <3> QED
      BY <2>1, <3>1
  <2>2. v = UNION {{8 * (j - 1) + i_ : i_ \in Bits(b[j])} : j \in 1..4}
    BY <1>1 DEF FromLeBytes
  <2>3. i \in Bits(b[k]) => 8 * (k - 1) + i \in v
    BY <2>2
  <2>4. ASSUME 8 * (k - 1) + i \in v PROVE i \in Bits(b[k])
    <3>1. PICK j \in 1..4 : \E i_ \in Bits(b[j]) : 8 * (k - 1) + i = 8 * (j - 1) + i_
      BY <2>2, <2>4
    <3> QED
      BY <2>1, <3>1
  <2> QED
    BY <2>3, <2>4
<1>3. v \in BitSets
  <2>1. ASSUME NEW j \in 1..4, NEW i \in Bits(b[j]) PROVE 8 * (j - 1) + i \in Bit
    <3>1. i \in 0..7
      BY DEF Bits
    <3> QED
      BY <3>1 DEF Bit
  <2> QED
    BY <1>1, <2>1 DEF FromLeBytes, BitSets
<1>4. PICK w0 \in BitSets : w0 = Xor(v, w)
  BY <1>3, XorWord
<1>5. PICK n \in Nat : n = 8 * (k - 1)
  OBVIOUS
<1>6. ByteAt(w0, n) \in Byte /\ Bits(ByteAt(w0, n)) = {i \in 0..7 : n + i \in w0}
  BY ByteAtBits
<1>7. {i \in 0..7 : n + i \in w0} = Xor(Bits(b[k]), {i \in 0..7 : n + i \in w})
  <2>1. \A i \in 0..7 : n + i \in w0 <=> ~(i \in Bits(b[k]) <=> n + i \in w)
    BY <1>2, <1>4, <1>5, XorMember, SMTT(30)
  <2>2. Bits(b[k]) \subseteq 0..7
    BY DEF Bits
  <2> QED
    BY <2>1, <2>2 DEF Xor
<1> QED
  BY <1>1, <1>4, <1>5, <1>6, <1>7

LEMMA LowByte ==
  ASSUME NEW w \in BitSets
  PROVE  /\ {i \in 0..7 : i \in w} \in BitSets
         /\ DivideByte[w] = Xor(ShiftRight(w, 8), DivideByte[{i \in 0..7 : i \in w}])
<1>1. ByteAt(w, 0) \in Byte /\ Bits(ByteAt(w, 0)) = {i \in 0..7 : i \in w}
  <2>1. \A i \in 0..7 : 0 + i = i
    OBVIOUS
  <2> QED
    BY <2>1, ByteAtBits
<1> QED
  BY <1>1, WithTable, FirstTableEntry, BitsWord

LEMMA Regrouped ==
  ASSUME NEW u, NEW h, NEW l, NEW c
  PROVE  Xor(Xor(u, Xor(h, l)), c) = Xor(Xor(u, Xor(c, l)), h)
<1>1. \A y : y \in Xor(Xor(u, Xor(h, l)), c) <=> y \in Xor(Xor(u, Xor(c, l)), h)
  BY XorMember
<1> QED
  BY <1>1

\* crc32_slice16 is the division of sixteen bytes.
LEMMA SixteenBytes ==
  ASSUME NEW b \in Seq(Byte), Len(b) = 16, NEW w \in BitSets, NEW g, Divides(g, b, w, 16)
  PROVE  Crc32Slice16(b, w) = g[16]
<1> DEFINE byte(k) == IF k <= 4 THEN ByteAt(Xor(FromLeBytes(b), w), 8 * (k - 1)) ELSE b[k]
           v(n) == ShiftRight(w, 8 * n)
           low(n) == {i \in 0..7 : i \in v(n)}
<1>1. PICK f : Powers(f)
  BY PowersExist
<1>2. \A n \in 0..16 : v(n) \in BitSets
  BY ShiftWord
<1>3. \A n \in 1..16 : ShiftRight(v(n - 1), 8) = v(n)
  <2> SUFFICES ASSUME NEW n \in 1..16 PROVE ShiftRight(v(n - 1), 8) = v(n)
    OBVIOUS
  <2>1. 8 * (n - 1) \in Nat /\ 8 \in Nat /\ 8 * (n - 1) + 8 = 8 * n
    OBVIOUS
  <2> QED
    BY <2>1, ShiftLaws
<1>4. ASSUME NEW n \in 1..16
      PROVE  byte(n) \in Byte /\ Bits(byte(n)) = Xor(Bits(b[n]), low(n - 1))
  <2>1. low(n - 1) = {i \in 0..7 : 8 * (n - 1) + i \in w}
    <3>1. ASSUME NEW i \in 0..7 PROVE i \in v(n - 1) <=> 8 * (n - 1) + i \in w
      <4>1. 8 * (n - 1) \in Nat
        OBVIOUS
      <4>2. i \in v(n - 1) <=> i \in Nat /\ i + 8 * (n - 1) \in w
        BY <4>1, ShiftMember
      <4>3. i \in Nat /\ i + 8 * (n - 1) = 8 * (n - 1) + i
        OBVIOUS
      <4> QED
        BY <4>2, <4>3
    <3> HIDE DEF v
    <3> QED
      BY <3>1
  <2>2. CASE n <= 4
    <3>1. n \in 1..4
      BY <2>2
    <3> QED
      BY <2>1, <2>2, <3>1, FirstBytes, ZenonT(30)
  <2>3. CASE ~(n <= 4)
    <3>1. ASSUME NEW i \in 0..7 PROVE 8 * (n - 1) + i \notin w
      <4>1. 8 * (n - 1) + i \notin Bit
        BY <2>3 DEF Bit
      <4> QED
        BY <4>1 DEF BitSets
    <3>2. low(n - 1) = {}
      BY <2>1, <3>1
    <3>3. byte(n) = b[n] /\ b[n] \in Byte
      BY <2>3, ElementOfSeq
    <3> QED
      BY <3>2, <3>3, XorLaws
  <2> QED
    BY <2>2, <2>3
<1> HIDE DEF byte, v
<1>5. PICK x : x = [k \in 1..16 |-> CrcTable[16 - k][byte(k)]]
  OBVIOUS
<1>6. ASSUME NEW n \in 1..16 PROVE x[n] \in BitSets /\ x[n] = f[17 - n][Bits(byte(n))]
  <2>1. 16 - n \in 0..15 /\ (16 - n) + 1 = 17 - n /\ 17 - n \in 0..16
    OBVIOUS
  <2>2. x[n] = CrcTable[16 - n][byte(n)]
    BY <1>5
  <2>3. \A k \in 0..15 : CrcTable[k][byte(n)] = f[k + 1][Bits(byte(n))]
    BY <1>1, <1>4, TablesArePowers
  <2>4. x[n] = f[17 - n][Bits(byte(n))]
    BY <2>1, <2>2, <2>3
  <2>5. \A k \in 0..16 : f[k][Bits(byte(n))] \in BitSets
    BY <1>1, BitsWord DEF Powers
  <2> QED
    BY <2>1, <2>4, <2>5
<1>7. x \in [1..16 -> BitSets]
  BY <1>5, <1>6
<1>8. PICK u \in [0..16 -> BitSets] :
        /\ u[0] = {} /\ \A k \in 1..16 : u[k] = Xor(u[k - 1], x[k])
        /\ Xor16(x) = u[16]
  BY <1>7, Xor16Sums
<1>9. Crc32Slice16(b, w) = u[16]
  BY <1>5, <1>8 DEF Crc32Slice16, byte
<1> DEFINE S == {n \in 0..16 : /\ g[n] \in BitSets
                               /\ f[16 - n][g[n]] = Xor(u[n], f[16 - n][v(n)])}
<1>10. 0 \in S
  <2>1. v(0) = w
    BY ShiftLaws DEF v
  <2>2. g[0] = w
    BY DEF Divides
  <2>3. Xor(u[0], f[16][w]) = f[16][w]
    BY <1>8, XorLaws
  <2>4. 16 - 0 = 16 /\ 0 \in 0..16
    OBVIOUS
  <2> QED
    BY <2>1, <2>2, <2>3, <2>4
<1>11. ASSUME NEW n \in 1..16, n - 1 \in S PROVE n \in S
  <2>1. PICK p \in 0..16, q \in 0..16 :
          /\ p = 16 - n /\ q = 17 - n /\ q \in 1..16 /\ q - 1 = p /\ 16 - (n - 1) = q
          /\ n - 1 \in 0..16 /\ n \in 0..16
    <3>1. /\ 16 - n \in 0..16 /\ 17 - n \in 0..16 /\ 17 - n \in 1..16
          /\ (17 - n) - 1 = 16 - n /\ 16 - (n - 1) = 17 - n
          /\ n - 1 \in 0..16 /\ n \in 0..16
      OBVIOUS
    <3> QED
      BY <3>1
  <2>2. PICK a \in BitSets : a = g[n - 1] /\ f[q][a] = Xor(u[n - 1], f[q][v(n - 1)])
    BY <1>11, <2>1
  <2>3. PICK B \in BitSets : B = Bits(b[n])
    BY BitsWord
  <2>a. \A y \in BitSets : f[q][y] = f[p][DivideByte[y]]
    <3>1. \A m \in 1..16 : \A y \in BitSets : f[m][y] = f[m - 1][DivideByte[y]]
      BY <1>1, PowersFirst, ZenonT(30)
    <3> QED
      BY <2>1, <3>1, ZenonT(30)
  <2>b. \A y, z \in BitSets : /\ f[q][Xor(y, z)] = Xor(f[q][y], f[q][z])
                            /\ f[p][Xor(y, z)] = Xor(f[p][y], f[p][z])
    <3>1. Linear(f)
      BY <1>1, PowersLinear
    <3> QED
      BY <2>1, <3>1 DEF Linear
  <2>4. Xor(a, B) \in BitSets /\ g[n] = DivideByte[Xor(a, B)] /\ g[n] \in BitSets
    BY <2>2, <2>3, XorWord, DivideByteWord DEF Divides
  <2>5. f[p][g[n]] = Xor(f[q][a], f[q][B])
    BY <2>4, <2>a, <2>b, SMTT(30)
  <2>6. PICK l \in BitSets, h \in BitSets :
          /\ l = low(n - 1) /\ h = v(n)
          /\ DivideByte[v(n - 1)] = Xor(h, DivideByte[l])
    <3>1. v(n - 1) \in BitSets /\ v(n) \in BitSets
      BY <1>2, <2>1
    <3>2. low(n - 1) \in BitSets
      BY <3>1, LowByte
    <3>3. DivideByte[v(n - 1)] = Xor(ShiftRight(v(n - 1), 8), DivideByte[low(n - 1)])
      BY <3>1, LowByte
    <3> QED
      BY <1>3, <3>1, <3>2, <3>3
  <2>7. f[q][v(n - 1)] = Xor(f[p][h], f[q][l])
    <3>1. v(n - 1) \in BitSets /\ DivideByte[l] \in BitSets
      BY <1>2, <2>1, DivideByteWord
    <3>2. f[q][v(n - 1)] = f[p][Xor(h, DivideByte[l])]
      BY <2>6, <2>a, <3>1
    <3>3. f[p][Xor(h, DivideByte[l])] = Xor(f[p][h], f[p][DivideByte[l]])
      BY <2>b, <3>1
    <3>4. f[q][l] = f[p][DivideByte[l]]
      BY <2>a
    <3> QED
      BY <3>2, <3>3, <3>4
  <2>8. x[n] = Xor(f[q][B], f[q][l])
    <3>1. x[n] = f[q][Xor(B, l)]
      BY <1>4, <1>6, <2>1, <2>3, <2>6
    <3> QED
      BY <2>b, <3>1
  <2>9. u[n] = Xor(u[n - 1], x[n])
    BY <1>8
  <2>10. f[p][g[n]] = Xor(u[n], f[p][v(n)])
    <3> HIDE DEF low
    <3> QED
      BY <2>2, <2>5, <2>6, <2>7, <2>8, <2>9, Regrouped
  <2> QED
    BY <2>1, <2>4, <2>10
<1>12. 16 \in Nat
  OBVIOUS
<1> HIDE DEF S
<1>13. 0..16 \subseteq S
  BY <1>10, <1>11, <1>12, StepByStep
<1>14. g[16] \in BitSets /\ f[0][g[16]] = Xor(u[16], f[0][v(16)])
  BY <1>13 DEF S
<1>15. v(16) = {}
  <2>1. ASSUME NEW y \in v(16) PROVE FALSE
    <3>1. y \in Nat /\ y + 128 \in w
      BY ShiftMember DEF v
    <3>2. y + 128 \in Bit
      BY <3>1 DEF BitSets
    <3> QED
      BY <3>1, <3>2 DEF Bit
  <2> QED
    BY <2>1
<1>16. f[0][v(16)] = v(16) /\ f[0][g[16]] = g[16]
  <2>1. v(16) \in BitSets /\ g[16] \in BitSets
    BY <1>2, <1>14
  <2> QED
    BY <1>1, <2>1, PowerOf
<1>17. Xor(u[16], {}) = u[16]
  BY XorLaws
<1> QED
  BY <1>9, <1>14, <1>15, <1>16, <1>17

-----------------------------------------------------------------------------
(* Blocks and remainders.                                                  *)

\* A division goes on where a part of the data begins.
LEMMA PartDivides ==
  ASSUME NEW g, NEW data, NEW w, NEW n \in Nat, Divides(g, data, w, n),
         NEW a \in Nat, NEW m \in Nat, a + m <= n,
         NEW part, \A j \in 1..m : part[j] = data[a + j]
  PROVE  Divides([j \in 0..m |-> g[a + j]], part, g[a], m)
<1>1. PICK h : h = [j \in 0..m |-> g[a + j]]
  OBVIOUS
<1>2. h[0] = g[a]
  BY <1>1
<1>3. ASSUME NEW j \in 1..m PROVE h[j] = DivideByte[Xor(h[j - 1], Bits(part[j]))]
  <2>1. a + j \in 1..n /\ (a + j) - 1 = a + (j - 1) /\ j \in 0..m /\ j - 1 \in 0..m
    OBVIOUS
  <2>2. h[j] = g[a + j] /\ h[j - 1] = g[a + (j - 1)]
    BY <1>1, <2>1
  <2>3. g[a + j] = DivideByte[Xor(g[(a + j) - 1], Bits(data[a + j]))]
    BY <2>1 DEF Divides
  <2> QED
    BY <2>1, <2>2, <2>3
<1> QED
  BY <1>1, <1>2, <1>3 DEF Divides

\* crc32_slice16 takes a division sixteen bytes further.
LEMMA HalfBlock ==
  ASSUME NEW data \in Seq(Byte), NEW w \in BitSets, NEW g \in [0..Len(data) -> BitSets],
         Divides(g, data, w, Len(data)), NEW k \in Nat \ {0}, 16 * k <= Len(data)
  PROVE  Crc32Slice16(SubSeq(data, 16 * (k - 1) + 1, 16 * k), g[16 * (k - 1)]) = g[16 * k]
<1>1. PICK a \in Nat : a = 16 * (k - 1) /\ a + 16 = 16 * k /\ a + 16 <= Len(data)
  <2>1. 16 * (k - 1) \in Nat /\ 16 * (k - 1) + 16 = 16 * k
    OBVIOUS
  <2> QED
    BY <2>1
<1>2. PICK b : b = SubSeq(data, a + 1, a + 16)
  OBVIOUS
<1>3. b \in Seq(Byte) /\ Len(b) = 16 /\ \A j \in 1..16 : b[j] = data[a + j]
  BY <1>1, <1>2
<1>4. PICK h : h = [j \in 0..16 |-> g[a + j]]
  OBVIOUS
<1>5. Divides(h, b, g[a], 16)
  <2>1. PICK N \in Nat, m \in Nat : N = Len(data) /\ m = 16
    OBVIOUS
  <2>2. Divides(g, data, w, N) /\ a + m <= N
    BY <1>1, <2>1
  <2>3. \A j \in 1..m : b[j] = data[a + j]
    BY <1>3, <2>1
  <2>4. Divides([j \in 0..m |-> g[a + j]], b, g[a], m)
    BY <2>2, <2>3, PartDivides
  <2> QED
    BY <1>4, <2>1, <2>4
<1>6. g[a] \in BitSets /\ h[16] = g[a + 16]
  <2>1. a \in 0..Len(data)
    BY <1>1
  <2>2. g[a] \in BitSets
    BY <2>1
  <2>3. h[16] = g[a + 16]
    BY <1>4
  <2> QED
    BY <2>2, <2>3
<1>7. Crc32Slice16(b, g[a]) = h[16]
  BY <1>3, <1>5, <1>6, SixteenBytes
<1> QED
  BY <1>1, <1>2, <1>6, <1>7

LEMMA BlocksDivide ==
  ASSUME NEW data \in Seq(Byte), NEW w \in BitSets, NEW g \in [0..Len(data) -> BitSets],
         Divides(g, data, w, Len(data)), NEW blocks \in Nat, 32 * blocks <= Len(data)
  PROVE  Crc32Blocks(data, blocks, w) = g[32 * blocks]
<1>1. PICK N \in Nat : N = 2 * blocks /\ 16 * N = 32 * blocks
  OBVIOUS
<1> DEFINE half(k) == SubSeq(data, 16 * (k - 1) + 1, 16 * k)
<1>2. ASSUME NEW k \in 1..N PROVE Crc32Slice16(half(k), g[16 * (k - 1)]) = g[16 * k]
  <2>1. k \in Nat \ {0} /\ 16 * k <= Len(data)
    BY <1>1
  <2> QED
    BY <2>1, HalfBlock
<1> HIDE DEF half
<1>3. PICK f : f = [k \in 0..N |-> g[16 * k]]
  OBVIOUS
<1>4. f = [k \in 0..N |-> IF k = 0 THEN w ELSE Crc32Slice16(half(k), f[k - 1])]
  <2>1. g[16 * 0] = w
    BY DEF Divides
  <2>2. ASSUME NEW k \in 0..N, k # 0 PROVE g[16 * k] = Crc32Slice16(half(k), f[k - 1])
    <3>1. k \in 1..N /\ k - 1 \in 0..N
      BY <2>2
    <3> QED
      BY <1>2, <1>3, <3>1
  <2> QED
    BY <1>3, <2>1, <2>2
<1>5. PICK s : /\ s = [k \in 0..N |-> IF k = 0 THEN w ELSE Crc32Slice16(half(k), s[k - 1])]
               /\ Crc32Blocks(data, blocks, w) = s[N]
  BY <1>1, <1>4 DEF Crc32Blocks, half
<1>6. \A k \in 0..N : s[k] = IF k = 0 THEN w ELSE Crc32Slice16(half(k), s[k - 1])
  BY <1>5, Zenon
<1> DEFINE S == {k \in 0..N : s[k] = g[16 * k]}
<1>7. 0 \in S
  BY <1>6 DEF Divides
<1>8. ASSUME NEW k \in 1..N, k - 1 \in S PROVE k \in S
  <2>1. k \in 0..N /\ k # 0
    OBVIOUS
  <2>2. s[k] = Crc32Slice16(half(k), s[k - 1])
    BY <1>6, <2>1
  <2> QED
    BY <1>2, <1>8, <2>1, <2>2
<1> HIDE DEF S
<1>9. 0..N \subseteq S
  BY <1>7, <1>8, StepByStep
<1>10. N \in S
  BY <1>9
<1> QED
  BY <1>1, <1>5, <1>10 DEF S

\* crc32_fold is the division bit by bit.
LEMMA FoldDivides ==
  ASSUME NEW data \in Seq(Byte), NEW w \in BitSets
  PROVE  Crc32Fold(data, w) = BitByBit(data, w)
<1>1. PICK g \in [0..Len(data) -> BitSets] :
        Divides(g, data, w, Len(data)) /\ BitByBit(data, w) = g[Len(data)]
  BY BitByBitDivides
<1>2. PICK N \in Nat : N = Len(data)
  OBVIOUS
<1>3. PICK blocks \in Nat : blocks = Len(data) \div 32 /\ 32 * blocks <= N
  <2>1. N \div 32 \in Nat /\ 32 * (N \div 32) <= N
    OBVIOUS
  <2> QED
    BY <1>2, <2>1
<1>4. PICK first \in Nat : first = 32 * blocks /\ first <= N
  BY <1>3
<1>5. PICK start : start = Crc32Blocks(data, blocks, w)
  OBVIOUS
<1>6. start = g[first]
  BY <1>1, <1>2, <1>4, <1>5, BlocksDivide
<1>7. ASSUME NEW n \in first..N, n # first PROVE g[n] = Crc32Byte(g[n - 1], data[n])
  <2>1. n \in 1..N /\ n - 1 \in 0..N
    BY <1>7
  <2>2. g[n] = DivideByte[Xor(g[n - 1], Bits(data[n]))]
    BY <1>1, <1>2, <2>1 DEF Divides
  <2>3. data[n] \in Byte /\ g[n - 1] \in BitSets
    BY <1>1, <1>2, <2>1, ElementOfSeq
  <2> QED
    BY <2>2, <2>3, OneByte
<1>8. PICK f : f = [n \in first..N |-> g[n]]
  OBVIOUS
<1>9. f = [n \in first..N |-> IF n = first THEN start ELSE Crc32Byte(f[n - 1], data[n])]
  <2>1. ASSUME NEW n \in first..N, n # first PROVE f[n] = Crc32Byte(f[n - 1], data[n])
    <3>1. n - 1 \in first..N
      BY <2>1
    <3> QED
      BY <1>7, <1>8, <2>1, <3>1
  <2>2. f[first] = start
    BY <1>6, <1>8, SMTT(30)
  <2> QED
    BY <1>8, <2>1, <2>2
<1>10. PICK h : /\ h = [n \in first..N |->
                          IF n = first THEN start ELSE Crc32Byte(h[n - 1], data[n])]
                /\ Crc32Fold(data, w) = h[N]
  BY <1>2, <1>3, <1>4, <1>5, <1>9 DEF Crc32Fold
<1>11. \A n \in first..N :
         h[n] = IF n = first THEN start ELSE Crc32Byte(h[n - 1], data[n])
  BY <1>10, Zenon
<1>12. PICK M \in Nat : M = N - first
  BY <1>4
<1> DEFINE S == {m \in 0..M : h[first + m] = g[first + m]}
<1>13. 0 \in S
  <2>1. h[first] = start
    BY <1>4, <1>11
  <2>2. first + 0 = first
    OBVIOUS
  <2> QED
    BY <1>6, <2>1, <2>2
<1>14. ASSUME NEW m \in 1..M, m - 1 \in S PROVE m \in S
  <2>1. PICK n \in first..N : n = first + m /\ n # first /\ n - 1 = first + (m - 1)
    <3>1. first + m \in first..N /\ first + m # first /\ (first + m) - 1 = first + (m - 1)
      BY <1>4, <1>12
    <3> QED
      BY <3>1
  <2>2. h[n] = Crc32Byte(h[n - 1], data[n])
    BY <1>11, <2>1
  <2>3. h[n - 1] = g[n - 1]
    BY <1>14, <2>1
  <2>4. h[n] = g[n]
    BY <1>7, <2>1, <2>2, <2>3
  <2> QED
    BY <2>1, <2>4
<1> HIDE DEF S
<1>15. 0..M \subseteq S
  BY <1>13, <1>14, StepByStep
<1>16. M \in S /\ first + M = N
  BY <1>4, <1>12, <1>15
<1>17. h[N] = g[N]
  BY <1>16 DEF S
<1> QED
  BY <1>1, <1>2, <1>10, <1>17

\* What has come already may as well be divided first.
LEMMA DividedInPieces ==
  ASSUME NEW s \in Seq(Byte), NEW t \in Seq(Byte), NEW w \in BitSets
  PROVE  /\ BitByBit(s, w) \in BitSets
         /\ BitByBit(s \o t, w) = BitByBit(t, BitByBit(s, w))
<1>1. PICK n \in Nat, m \in Nat : n = Len(s) /\ m = Len(t)
  OBVIOUS
<1>2. PICK all \in Seq(Byte) : all = s \o t
  BY ConcatProperties
<1>3. /\ Len(all) = n + m
      /\ \A i \in 1..n : all[i] = s[i]
      /\ \A i \in 1..m : all[n + i] = t[i]
  BY <1>1, <1>2
<1>4. PICK g \in [0..Len(all) -> BitSets] :
        Divides(g, all, w, Len(all)) /\ BitByBit(all, w) = g[Len(all)]
  BY BitByBitDivides
<1>5. PICK f \in [0..Len(s) -> BitSets] :
        Divides(f, s, w, Len(s)) /\ BitByBit(s, w) = f[Len(s)]
  BY BitByBitDivides
<1>6. BitByBit(s, w) = g[n] /\ g[n] \in BitSets
  <2>1. Divides(g, s, w, n)
    BY <1>1, <1>3, <1>4 DEF Divides
  <2>a. Divides(f, s, w, n)
    BY <1>1, <1>5
  <2>2. \A i \in 0..n : g[i] = f[i]
    BY <1>1, <2>1, <2>a, OneDivision
  <2> QED
    BY <1>1, <1>5, <2>2
<1>7. PICK e \in [0..Len(t) -> BitSets] :
        Divides(e, t, g[n], Len(t)) /\ BitByBit(t, g[n]) = e[Len(t)]
  BY <1>6, BitByBitDivides
<1>8. PICK h : h = [j \in 0..m |-> g[n + j]]
  OBVIOUS
<1>9. Divides(h, t, g[n], m)
  <2>1. n + m \in Nat /\ n + m <= n + m /\ Divides(g, all, w, n + m)
    BY <1>3, <1>4
  <2>2. \A j \in 1..m : t[j] = all[n + j]
    BY <1>3
  <2> QED
    BY <1>8, <2>1, <2>2, PartDivides
<1>10. h[m] = e[m]
  BY <1>1, <1>7, <1>9, OneDivision
<1>11. h[m] = g[n + m]
  BY <1>8
<1> QED
  BY <1>1, <1>2, <1>3, <1>4, <1>6, <1>7, <1>10, <1>11

-----------------------------------------------------------------------------
(* The checksum of the pieces.                                             *)

(***************************************************************************)
(* Both Crc32 and the history hold the remainder of all that has come.     *)
(***************************************************************************)
CrcInv ==
  /\ option \in {"calculate", "custom", "skip"}
  /\ crc32 \in BitSets
  /\ arrived \in Seq(Seq(Byte))
  /\ remainder = BitByBit(FlattenSeq(arrived), Bit)
  /\ option = "calculate" => crc32 = remainder

LEMMA NothingDivided == BitByBit(<<>>, Bit) = Bit
<1>1. <<>> \in Seq(Byte) /\ Bit \in BitSets /\ Len(<<>>) = 0
  BY DEF BitSets
<1>2. PICK g \in [0..Len(<<>>) -> BitSets] :
        Divides(g, <<>>, Bit, Len(<<>>)) /\ BitByBit(<<>>, Bit) = g[Len(<<>>)]
  BY <1>1, BitByBitDivides
<1> QED
  BY <1>1, <1>2 DEF Divides

LEMMA CrcBegins == CrcInit => CrcInv
<1> SUFFICES ASSUME CrcInit PROVE CrcInv
  OBVIOUS
<1>1. FlattenSeq(<<>>) = <<>>
  BY DEF FlattenSeq
<1>2. Bit \in BitSets /\ <<>> \in Seq(Seq(Byte))
  BY DEF BitSets
<1> QED
  BY <1>1, <1>2, NothingDivided DEF CrcInit, CrcInv

LEMMA CrcPreserved == CrcInv /\ [CrcNext]_crcVars => CrcInv'
<1> SUFFICES ASSUME CrcInv, [CrcNext]_crcVars PROVE CrcInv'
  OBVIOUS
<1>1. CASE UNCHANGED crcVars
  BY <1>1 DEF crcVars, CrcInv
<1>2. CASE CrcNext
  <2>1. PICK piece \in Pieces : Update(piece)
    BY <1>2 DEF CrcNext
  <2>2. /\ option' = option /\ arrived' = Append(arrived, piece)
        /\ remainder' = BitByBit(piece, remainder)
        /\ crc32' = IF option = "calculate" THEN Crc32Fold(piece, crc32) ELSE crc32
    BY <2>1 DEF Update
  <2>3. piece \in Seq(Byte)
    BY CrcAssumption
  <2>4. /\ crc32 \in BitSets /\ arrived \in Seq(Seq(Byte)) /\ Bit \in BitSets
        /\ remainder = BitByBit(FlattenSeq(arrived), Bit)
        /\ option = "calculate" => crc32 = remainder
        /\ option \in {"calculate", "custom", "skip"}
    BY DEF CrcInv, BitSets
  <2>5. PICK data \in Seq(Byte) :
          data = FlattenSeq(arrived) /\ FlattenSeq(arrived') = data \o piece
    BY <2>2, <2>3, <2>4, FlattenAppend
  <2>6. remainder' = BitByBit(data \o piece, Bit)
    BY <2>2, <2>3, <2>4, <2>5, DividedInPieces
  <2>7. Crc32Fold(piece, crc32) = BitByBit(piece, crc32) /\ BitByBit(piece, crc32) \in BitSets
    BY <2>3, <2>4, FoldDivides, DividedInPieces
  <2>8. crc32' \in BitSets /\ (option' = "calculate" => crc32' = remainder')
    BY <2>2, <2>4, <2>7
  <2>9. arrived' \in Seq(Seq(Byte))
    BY <2>2, <2>3, <2>4
  <2> QED
    BY <2>2, <2>4, <2>5, <2>6, <2>8, <2>9 DEF CrcInv
<1> QED
  BY <1>1, <1>2

(***************************************************************************)
(* Crc32::update and crc32: however the data is cut into pieces, the       *)
(* sixteen tables leave what the division bit by bit of all of it leaves.  *)
(***************************************************************************)
THEOREM ChecksumOfPieces == CrcSpec => []CrcOfPieces
<1>1. CrcInv => CrcOfPieces
  <2> SUFFICES ASSUME CrcInv PROVE CrcOfPieces
    OBVIOUS
  <2>1. option = "calculate" => Checksum = Not(crc32)
    BY DEF Checksum
  <2>2. option = "custom" => Checksum = CustomValue
    BY DEF Checksum
  <2>3. option = "skip" => Checksum = {}
    BY DEF Checksum
  <2>4. FlattenSeq(arrived) \in Seq(Byte) /\ Bit \in BitSets
    <3>1. <<>> \in Seq(Byte) /\ arrived \in Seq(Seq(Byte))
      BY DEF CrcInv
    <3> QED
      BY <3>1, FlattenAppend DEF BitSets
  <2>5. Crc32Fold(FlattenSeq(arrived), Bit) = remainder
    BY <2>4, FoldDivides DEF CrcInv
  <2> QED
    BY <2>1, <2>2, <2>3, <2>5 DEF CrcInv, CrcOfPieces
<1> QED
  BY <1>1, CrcBegins, CrcPreserved, PTL DEF CrcSpec

-----------------------------------------------------------------------------
(* Extraction.  No two files come out of the same bytes, for every         *)
(* directory: the list of ranges is sorted and its ranges lie side by      *)
(* side, so that a range that is looked at with its two neighbours only is *)
(* clear of all of them.                                                   *)

ExtractTypeOK ==
  /\ listed \in Seq(Listed)
  /\ compressed_ranges \in Seq(Nat \X Nat)
  /\ reported \subseteq 1..Len(listed)
  /\ outcome \in {"running", "done", "failed"}

\* Side by side, in the order of the file.
SideBySide(r) ==
  /\ \A k \in 1..Len(r) : r[k][1] <= r[k][2]
  /\ \A j, k \in 1..Len(r) : j < k => r[j][2] <= r[k][1]

Ordered == SideBySide(compressed_ranges)

\* Whatever was unpacked has its range in the list.
Covered ==
  \A n \in Unpacked : \E k \in 1..Len(compressed_ranges) :
    compressed_ranges[k] = <<listed[n].start, listed[n].end>>

ExtractInv == ExtractTypeOK /\ Ordered /\ Covered /\ RangesDisjoint

LEMMA Entry ==
  ASSUME NEW e \in Listed
  PROVE  e.start \in Nat /\ e.end \in Nat /\ e.start <= e.end
  BY ExtractionAssumption

(***************************************************************************)
(* The elements of a list into which one was inserted.                     *)
(***************************************************************************)
InsertedAt(q, r, p, x, S) ==
  /\ q \in Seq(S) /\ Len(q) = Len(r) + 1
  /\ \A i \in 1..(p - 1) : q[i] = r[i]
  /\ q[p] = x
  /\ \A i \in p..Len(r) : q[i + 1] = r[i]

LEMMA Inserted ==
  ASSUME NEW S, NEW r \in Seq(S), NEW p \in 1..(Len(r) + 1), NEW x \in S,
         NEW q, q = InsertAt(r, p, x)
  PROVE  InsertedAt(q, r, p, x, S)
<1> DEFINE front == SubSeq(r, 1, p - 1)
           back == SubSeq(r, p, Len(r))
           head == front \o <<x>>
<1>1. Len(r) \in Nat /\ p \in Nat /\ p >= 1 /\ p <= Len(r) + 1
  BY LenProperties
<1>2. /\ front \in Seq(S) /\ Len(front) = p - 1
      /\ \A i \in 1..(p - 1) : front[i] = r[i]
  <2>1. \A i \in 1..(p - 1) : r[i] \in S
    BY <1>1, ElementOfSeq
  <2>2. /\ SubSeq(r, 1, p - 1) \in Seq(S)
        /\ Len(SubSeq(r, 1, p - 1)) = IF 1 <= p - 1 THEN (p - 1) - 1 + 1 ELSE 0
        /\ \A i \in 1..((p - 1) - 1 + 1) : SubSeq(r, 1, p - 1)[i] = r[1 + i - 1]
    BY <1>1, <2>1, SubSeqProperties
  <2>3. QED
    BY <1>1, <2>2
<1>3. /\ back \in Seq(S) /\ Len(back) = Len(r) - p + 1
      /\ \A i \in 1..(Len(r) - p + 1) : back[i] = r[p + i - 1]
  <2>1. \A i \in p..Len(r) : r[i] \in S
    BY <1>1, ElementOfSeq
  <2>2. /\ SubSeq(r, p, Len(r)) \in Seq(S)
        /\ Len(SubSeq(r, p, Len(r))) = IF p <= Len(r) THEN Len(r) - p + 1 ELSE 0
        /\ \A i \in 1..(Len(r) - p + 1) : SubSeq(r, p, Len(r))[i] = r[p + i - 1]
    BY <1>1, <2>1, SubSeqProperties
  <2>3. QED
    BY <1>1, <2>2
<1> HIDE DEF front, back
<1>4. <<x>> \in Seq(S) /\ Len(<<x>>) = 1 /\ <<x>>[1] = x
  OBVIOUS
<1>5. /\ head \in Seq(S) /\ Len(head) = p
      /\ \A i \in 1..p : head[i] = IF i <= p - 1 THEN front[i] ELSE <<x>>[i - (p - 1)]
  <2>1. /\ head \in Seq(S) /\ Len(head) = Len(front) + Len(<<x>>)
        /\ \A i \in 1..(Len(front) + Len(<<x>>)) :
             head[i] = IF i <= Len(front) THEN front[i] ELSE <<x>>[i - Len(front)]
    BY <1>2, <1>4, ConcatProperties
  <2>2. Len(front) = p - 1 /\ Len(front) + Len(<<x>>) = p
    BY <1>1, <1>2, <1>4
  <2>3. QED
    BY <2>1, <2>2
<1> HIDE DEF head
<1>6. q = head \o back
  BY DEF InsertAt, head, front, back
<1>7. /\ q \in Seq(S) /\ Len(q) = Len(head) + Len(back)
      /\ \A i \in 1..(Len(head) + Len(back)) :
           q[i] = IF i <= Len(head) THEN head[i] ELSE back[i - Len(head)]
  <2>1. /\ head \o back \in Seq(S) /\ Len(head \o back) = Len(head) + Len(back)
        /\ \A i \in 1..(Len(head) + Len(back)) :
             (head \o back)[i] = IF i <= Len(head) THEN head[i] ELSE back[i - Len(head)]
    BY <1>3, <1>5, ConcatProperties
  <2>2. QED
    BY <1>6, <2>1
<1>8. Len(q) = Len(r) + 1
  BY <1>1, <1>3, <1>5, <1>7
<1>9. ASSUME NEW i \in 1..(p - 1)
      PROVE  q[i] = r[i]
  BY <1>1, <1>2, <1>3, <1>5, <1>7
<1>10. q[p] = x
  <2>1. q[p] = head[p] /\ head[p] = <<x>>[p - (p - 1)]
    BY <1>1, <1>3, <1>5, <1>7
  <2>2. p - (p - 1) = 1
    BY <1>1
  <2>3. QED
    BY <1>4, <2>1, <2>2
<1>11. ASSUME NEW i \in p..Len(r)
       PROVE  q[i + 1] = r[i]
  <2>1. /\ i + 1 \in 1..(Len(head) + Len(back)) /\ ~(i + 1 <= Len(head))
        /\ i + 1 - Len(head) = i - p + 1
        /\ i - p + 1 \in 1..(Len(r) - p + 1) /\ p + (i - p + 1) - 1 = i
    BY <1>1, <1>3, <1>5
  <2>2. q[i + 1] = back[i + 1 - Len(head)]
    BY <1>7, <2>1
  <2>3. back[i - p + 1] = r[p + (i - p + 1) - 1]
    BY <1>3, <2>1
  <2>4. QED
    BY <2>1, <2>2, <2>3
<1>12. QED
  BY <1>7, <1>8, <1>9, <1>10, <1>11 DEF InsertedAt

(***************************************************************************)
(* A list of ranges side by side stays one if a range goes in behind those *)
(* that end before it and in front of those that start after it; and none  *)
(* is lost.                                                                *)
(***************************************************************************)
HasRoom(r, p, start, end) ==
  /\ \A k \in 1..(p - 1) : r[k][2] <= start
  /\ \A k \in p..Len(r) : end <= r[k][1]

Among(q, x) == \E i \in 1..Len(q) : q[i] = x
Keeps(q, r) == \A k \in 1..Len(r) : Among(q, r[k])

LEMMA InsertKeepsOrder ==
  ASSUME NEW r \in Seq(Nat \X Nat), SideBySide(r), NEW p \in 1..(Len(r) + 1),
         NEW start \in Nat, NEW end \in Nat, start <= end, HasRoom(r, p, start, end),
         NEW q, q = InsertAt(r, p, <<start, end>>)
  PROVE  /\ q \in Seq(Nat \X Nat) /\ SideBySide(q)
         /\ Keeps(q, r) /\ Among(q, <<start, end>>)
<1>1. Len(r) \in Nat /\ p \in Nat /\ 1 <= p /\ p <= Len(r) + 1
  BY LenProperties
<1>2. <<start, end>> \in Nat \X Nat
  OBVIOUS
<1>3. /\ q \in Seq(Nat \X Nat) /\ Len(q) = Len(r) + 1
      /\ \A i \in 1..(p - 1) : q[i] = r[i]
      /\ q[p] = <<start, end>>
      /\ \A i \in p..Len(r) : q[i + 1] = r[i]
  <2>1. InsertedAt(q, r, p, <<start, end>>, Nat \X Nat)
    BY <1>2, Inserted
  <2>2. QED
    BY <2>1 DEF InsertedAt
<1>4. q[p][1] = start /\ q[p][2] = end
  <2>1. q[p] = <<start, end>>
    BY <1>3
  <2>2. <<start, end>>[1] = start /\ <<start, end>>[2] = end
    OBVIOUS
  <2>3. QED
    BY <2>1, <2>2, Zenon
<1>5. ASSUME NEW k \in 1..Len(q), k # p
      PROVE  \E i \in 1..Len(r) : /\ q[k] = r[i]
                                  /\ k < p => i = k
                                  /\ k > p => i = k - 1 /\ i >= p
  <2>1. CASE k < p
    <3>1. k \in 1..(p - 1) /\ k \in 1..Len(r)
      BY <1>1, <2>1
    <3>2. q[k] = r[k]
      BY <1>3, <3>1
    <3>3. k \in Int /\ p \in Int /\ ~(k > p)
      BY <1>1, <2>1
    <3>4. QED
      BY <3>1, <3>2, <3>3
  <2>2. CASE k > p
    <3>1. Len(q) = Len(r) + 1
      BY <1>3
    <3>2. k - 1 \in p..Len(r) /\ k - 1 \in 1..Len(r) /\ (k - 1) + 1 = k
      BY <1>1, <2>2, <3>1
    <3>3. q[(k - 1) + 1] = r[k - 1]
      BY <1>3, <3>2
    <3>4. QED
      BY <1>1, <2>2, <3>2, <3>3
  <2>3. k < p \/ k > p
    BY <1>1, <1>3, <1>5
  <2>4. QED
    BY <2>1, <2>2, <2>3
<1>6. ASSUME NEW k \in 1..Len(q)
      PROVE  q[k][1] <= q[k][2]
  <2>1. CASE k = p
    BY <1>4, <2>1
  <2>2. CASE k # p
    <3>1. PICK i \in 1..Len(r) : q[k] = r[i]
      BY <1>5, <2>2
    <3>2. QED
      BY <3>1 DEF SideBySide
  <2>3. QED
    BY <2>1, <2>2
<1>7. ASSUME NEW j \in 1..Len(q), NEW k \in 1..Len(q), j < k
      PROVE  q[j][2] <= q[k][1]
  <2>1. CASE j = p
    <3>1. k # p /\ k > p
      BY <1>1, <1>7, <2>1
    <3>2. PICK i \in 1..Len(r) : q[k] = r[i] /\ i >= p
      BY <1>5, <3>1
    <3>3. end <= r[i][1]
      BY <1>1, <3>2, SMTT(30) DEF HasRoom
    <3>4. QED
      BY <1>4, <2>1, <3>2, <3>3
  <2>2. CASE k = p
    <3>1. j \in 1..(p - 1)
      BY <1>1, <1>3, <1>7, <2>2
    <3>2. j \in 1..(p - 1) /\ q[j] = r[j]
      BY <1>3, <3>1
    <3>3. r[j][2] <= start
      BY <3>2 DEF HasRoom
    <3>4. QED
      BY <1>4, <2>2, <3>2, <3>3
  <2>3. CASE j # p /\ k # p
    <3>1. PICK i \in 1..Len(r) : /\ q[j] = r[i]
                                 /\ j < p => i = j
                                 /\ j > p => i = j - 1 /\ i >= p
      BY <1>5, <2>3
    <3>2. PICK l \in 1..Len(r) : /\ q[k] = r[l]
                                 /\ k < p => l = k
                                 /\ k > p => l = k - 1 /\ l >= p
      BY <1>5, <2>3
    <3>3. i < l
      <4>1. /\ j \in Int /\ k \in Int /\ p \in Int /\ i \in Int /\ l \in Int
            /\ j < k /\ j # p /\ k # p
        BY <1>1, <1>3, <1>7, <2>3
      <4>2. /\ (j < p => i = j) /\ (j > p => i = j - 1)
            /\ (k < p => l = k) /\ (k > p => l = k - 1)
        BY <3>1, <3>2
      <4>3. QED
        BY SMTT(60), <4>1, <4>2
    <3>4. r[i][2] <= r[l][1]
      BY <3>3 DEF SideBySide
    <3>5. QED
      BY <3>1, <3>2, <3>4
  <2>4. QED
    BY <2>1, <2>2, <2>3
<1>8. SideBySide(q)
  BY <1>6, <1>7 DEF SideBySide
<1>9. ASSUME NEW k \in 1..Len(r)
      PROVE  \E i \in 1..Len(q) : q[i] = r[k]
  <2>1. CASE k < p
    <3>1. k \in 1..(p - 1) /\ k \in 1..Len(q)
      BY <1>1, <1>3, <2>1
    <3>2. QED
      BY <1>3, <3>1
  <2>2. CASE k >= p
    <3>1. k \in p..Len(r) /\ k + 1 \in 1..Len(q)
      BY <1>1, <1>3, <2>2
    <3>2. QED
      BY <1>3, <3>1
  <2>3. k < p \/ k >= p
    BY <1>1
  <2>4. QED
    BY <2>1, <2>2, <2>3
<1>10. p \in 1..Len(q)
  BY <1>1, <1>3
<1>11. QED
  BY <1>3, <1>8, <1>9, <1>10 DEF Keeps, Among

LEMMA PositionsInRange ==
  ASSUME ExtractTypeOK, NEW start, NEW p \in Positions(start)
  PROVE  p \in 1..(Len(compressed_ranges) + 1)
<1>1. DOMAIN compressed_ranges = 1..Len(compressed_ranges) /\ Len(compressed_ranges) \in Nat
  BY DEF ExtractTypeOK
<1>2. QED
  BY <1>1 DEF Positions

(***************************************************************************)
(* What does not overlap its two neighbours overlaps nothing.              *)
(***************************************************************************)
LEMMA NeighboursSuffice ==
  ASSUME ExtractTypeOK, Ordered, NEW e \in Listed,
         NEW p \in 1..(Len(compressed_ranges) + 1), ~Overlapping(e, p)
  PROVE  HasRoom(compressed_ranges, p, e.start, e.end)
<1> DEFINE r == compressed_ranges
<1>1. r \in Seq(Nat \X Nat) /\ Len(r) \in Nat
  BY LenProperties DEF ExtractTypeOK
<1>2. ASSUME NEW j \in 1..Len(r)
      PROVE  r[j][1] \in Nat /\ r[j][2] \in Nat
  <2>1. r[j] \in Nat \X Nat
    BY <1>1, ElementOfSeq
  <2>2. QED
    BY <2>1
<1>3. e.start \in Nat /\ e.end \in Nat
  BY Entry
<1>4. /\ \A k \in 1..Len(r) : r[k][1] <= r[k][2]
      /\ \A j, k \in 1..Len(r) : j < k => r[j][2] <= r[k][1]
  BY DEF Ordered, SideBySide
<1>5. /\ p > 1 => ~(r[p - 1][2] > e.start)
      /\ p <= Len(r) => ~(e.end > r[p][1])
  BY DEF Overlapping
<1> HIDE DEF r
<1>6. ASSUME NEW k \in 1..(p - 1)
      PROVE  r[k][2] <= e.start
  <2>1. p - 1 \in 1..Len(r) /\ k \in 1..Len(r) /\ p > 1
    BY <1>1, <1>6 DEF r
  <2>2. r[p - 1][2] <= e.start
    BY <1>2, <1>3, <1>5, <2>1
  <2>3. CASE k = p - 1
    BY <2>2, <2>3
  <2>4. CASE k < p - 1
    <3>1. r[k][2] <= r[p - 1][1] /\ r[p - 1][1] <= r[p - 1][2]
      BY <1>4, <2>1, <2>4
    <3>2. /\ r[k][2] \in Nat /\ r[p - 1][1] \in Nat /\ r[p - 1][2] \in Nat
      BY <1>2, <2>1
    <3>3. QED
      BY <1>3, <2>2, <3>1, <3>2, SMTT(30)
  <2>5. QED
    BY <2>1, <2>3, <2>4
<1>7. ASSUME NEW k \in p..Len(r)
      PROVE  e.end <= r[k][1]
  <2>1. p \in 1..Len(r) /\ k \in 1..Len(r) /\ p <= Len(r)
    BY <1>1, <1>7 DEF r
  <2>2. e.end <= r[p][1]
    BY <1>2, <1>3, <1>5, <2>1
  <2>3. CASE k = p
    BY <2>2, <2>3
  <2>4. CASE k > p
    <3>1. r[p][1] <= r[p][2] /\ r[p][2] <= r[k][1]
      BY <1>4, <2>1, <2>4
    <3>2. r[p][1] \in Nat /\ r[p][2] \in Nat /\ r[k][1] \in Nat
      BY <1>2, <2>1
    <3>3. QED
      BY <1>3, <2>2, <3>1, <3>2
  <2>5. QED
    BY <1>7, <2>1, <2>3, <2>4
<1>8. QED
  BY <1>6, <1>7 DEF HasRoom, r

-----------------------------------------------------------------------------
(* Steps.                                                                  *)

\* An entry was listed, and its range was inserted or not.
EntryListed(e) ==
  /\ outcome = "running" /\ listed' = Append(listed, e)
  /\ reported' \in {reported, reported \cup {Number}}
  /\ outcome' \in {"running", "failed"}

LEMMA ListedFacts ==
  ASSUME ExtractTypeOK, NEW e \in Listed, EntryListed(e)
  PROVE  /\ listed' \in Seq(Listed) /\ Len(listed') = Number
         /\ Number \in Nat /\ Number = Len(listed) + 1
         /\ listed'[Number] = e
         /\ \A n \in 1..Len(listed) : listed'[n] = listed[n]
         /\ reported' \subseteq 1..Len(listed')
         /\ outcome' \in {"running", "done", "failed"}
         /\ Unpacked' \subseteq Unpacked \cup {Number}
         /\ Unpacked \subseteq 1..Len(listed)
<1>1. /\ listed' \in Seq(Listed) /\ Len(listed') = Len(listed) + 1
      /\ listed'[Len(listed) + 1] = e
      /\ \A n \in 1..Len(listed) : listed'[n] = listed[n]
      /\ Len(listed) \in Nat
  BY DEF ExtractTypeOK, EntryListed
<1>2. DOMAIN listed = 1..Len(listed) /\ DOMAIN listed' = 1..(Len(listed) + 1)
  BY <1>1 DEF ExtractTypeOK
<1>3. reported' \subseteq 1..Len(listed') /\ reported \subseteq reported'
  <2>1. 1..Len(listed) \subseteq 1..(Len(listed) + 1) /\ Number \in 1..(Len(listed) + 1)
    BY <1>1 DEF Number
  <2>2. reported \subseteq reported' /\ reported' \subseteq reported \cup {Number}
    BY DEF EntryListed
  <2>3. QED
    BY <1>1, <2>1, <2>2 DEF ExtractTypeOK
<1>4. ASSUME NEW n \in Unpacked', n # Number
      PROVE  n \in Unpacked
  <2>1. n \in 1..Len(listed) /\ listed'[n] = listed[n]
    BY <1>1, <1>2, <1>4 DEF Unpacked, Number
  <2>2. n \notin reported
    BY <1>3 DEF Unpacked
  <2>3. QED
    BY <1>2, <2>1, <2>2 DEF Unpacked, EntryListed, Entered
<1>5. Unpacked \subseteq 1..Len(listed)
  BY <1>2 DEF Unpacked
<1>6. QED
  BY <1>1, <1>3, <1>4, <1>5 DEF Number, EntryListed

(***************************************************************************)
(* An entry that is not unpacked changes nothing.                          *)
(***************************************************************************)
LEMMA NotUnpacked ==
  ASSUME ExtractInv, NEW e \in Listed, EntryListed(e),
         UNCHANGED compressed_ranges, Number \notin Unpacked'
  PROVE  ExtractInv'
<1>1. Unpacked' \subseteq Unpacked
  BY ListedFacts DEF ExtractInv
<1>2. \A n \in Unpacked : listed'[n] = listed[n]
  BY ListedFacts DEF ExtractInv
<1>3. ExtractTypeOK'
  BY ListedFacts DEF ExtractInv, ExtractTypeOK
<1>4. Ordered'
  BY DEF ExtractInv, Ordered, SideBySide
<1>5. Covered'
  BY <1>1, <1>2 DEF ExtractInv, Covered
<1>6. RangesDisjoint'
  BY <1>1, <1>2 DEF ExtractInv, RangesDisjoint
<1>7. QED
  BY <1>3, <1>4, <1>5, <1>6 DEF ExtractInv

(***************************************************************************)
(* Nor does an entry that does not overlap its neighbours.                 *)
(***************************************************************************)
LEMMA Unpacks ==
  ASSUME ExtractInv, NEW e \in Listed, EntryListed(e),
         NEW p \in Positions(e.start), ~Overlapping(e, p),
         compressed_ranges' = InsertAt(compressed_ranges, p, <<e.start, e.end>>)
  PROVE  ExtractInv'
<1>1. /\ p \in 1..(Len(compressed_ranges) + 1) /\ compressed_ranges \in Seq(Nat \X Nat)
      /\ SideBySide(compressed_ranges)
      /\ e.start \in Nat /\ e.end \in Nat /\ e.start <= e.end
  BY PositionsInRange, Entry DEF ExtractInv, ExtractTypeOK, Ordered
<1>2. HasRoom(compressed_ranges, p, e.start, e.end)
  BY <1>1, NeighboursSuffice DEF ExtractInv
<1>3. /\ compressed_ranges' \in Seq(Nat \X Nat) /\ SideBySide(compressed_ranges')
      /\ \A k \in 1..Len(compressed_ranges) : \E i \in 1..Len(compressed_ranges') :
           compressed_ranges'[i] = compressed_ranges[k]
      /\ \E i \in 1..Len(compressed_ranges') :
           compressed_ranges'[i] = <<e.start, e.end>>
  <2>1. <<e.start, e.end>> \in Nat \X Nat
    BY <1>1
  <2>2. /\ compressed_ranges' \in Seq(Nat \X Nat) /\ SideBySide(compressed_ranges')
        /\ Keeps(compressed_ranges', compressed_ranges)
        /\ Among(compressed_ranges', <<e.start, e.end>>)
    BY <1>1, <1>2, InsertKeepsOrder
  <2>3. QED
    BY <2>2 DEF Keeps, Among
<1>4. ExtractTypeOK' /\ Ordered'
  BY <1>3, ListedFacts DEF ExtractInv, ExtractTypeOK, Ordered, SideBySide
<1>5. /\ Unpacked' \subseteq Unpacked \cup {Number} /\ listed'[Number] = e
      /\ \A n \in Unpacked : listed'[n] = listed[n] /\ n # Number
  BY ListedFacts DEF ExtractInv
<1>6. ASSUME NEW n \in Unpacked
      PROVE  \E k \in 1..Len(compressed_ranges) :
               compressed_ranges[k] = <<listed[n].start, listed[n].end>>
  BY DEF ExtractInv, Covered
<1>7. Covered'
  <2>1. ASSUME NEW n \in Unpacked'
        PROVE  \E k \in 1..Len(compressed_ranges') :
                 compressed_ranges'[k] = <<listed'[n].start, listed'[n].end>>
    <3>1. CASE n = Number
      BY <1>3, <1>5, <3>1
    <3>2. CASE n \in Unpacked
      <4>1. PICK k \in 1..Len(compressed_ranges) :
              compressed_ranges[k] = <<listed[n].start, listed[n].end>>
        BY <1>6, <3>2
      <4>2. PICK i \in 1..Len(compressed_ranges') :
              compressed_ranges'[i] = compressed_ranges[k]
        BY <1>3
      <4>3. listed'[n] = listed[n]
        BY <1>5, <3>2
      <4>4. QED
        BY <4>1, <4>2, <4>3
    <3>3. QED
      BY <1>5, <3>1, <3>2
  <2>2. QED
    BY <2>1 DEF Covered
<1>8. ASSUME NEW n \in Unpacked
      PROVE  listed[n].end <= e.start \/ e.end <= listed[n].start
  <2>1. PICK k \in 1..Len(compressed_ranges) :
          compressed_ranges[k] = <<listed[n].start, listed[n].end>>
    BY <1>6
  <2>2. compressed_ranges[k][1] = listed[n].start /\ compressed_ranges[k][2] = listed[n].end
    BY <2>1
  <2>3. Len(compressed_ranges) \in Nat /\ (k \in 1..(p - 1) \/ k \in p..Len(compressed_ranges))
    BY <1>1, LenProperties
  <2>4. QED
    BY <1>2, <2>2, <2>3 DEF HasRoom
<1>9. RangesDisjoint'
  <2>1. SUFFICES ASSUME NEW i \in Unpacked', NEW j \in Unpacked', i # j
                 PROVE  \/ listed'[i].end <= listed'[j].start
                        \/ listed'[j].end <= listed'[i].start
    BY DEF RangesDisjoint
  <2>2. CASE i # Number /\ j # Number
    BY <1>5, <2>1, <2>2 DEF ExtractInv, RangesDisjoint
  <2>3. CASE i = Number /\ j # Number
    BY <1>5, <1>8, <2>3
  <2>4. CASE i # Number /\ j = Number
    BY <1>5, <1>8, <2>4
  <2>5. QED
    BY <2>1, <2>2, <2>3, <2>4
<1>10. QED
  BY <1>4, <1>7, <1>9 DEF ExtractInv

\* The three ways in which an entry is not unpacked.
LEMMA Passed ==
  ASSUME ExtractInv, NEW e \in Listed, EntryListed(e),
         \/ Number \in reported' \/ outcome' = "failed"
         \/ e.dir \/ ~Entered(e)
  PROVE  Number \notin Unpacked'
<1>1. Len(listed') = Number /\ Number \in Nat /\ listed'[Number] = e
  BY ListedFacts DEF ExtractInv
<1>2. QED
  BY <1>1 DEF Unpacked, Entered

LEMMA ExtractEntryKeeps ==
  ASSUME ExtractInv, NEW e \in Listed, ExtractEntry(e)
  PROVE  ExtractInv'
<1>1. CASE e.path = {} /\ Skip /\ UNCHANGED <<files, compressed_ranges>>
  <2>1. EntryListed(e) /\ Number \in reported'
    BY <1>1 DEF ExtractEntry, EntryListed, Skip
  <2>2. QED
    BY <1>1, <2>1, Passed, NotUnpacked
<1>2. CASE Fail /\ UNCHANGED <<files, compressed_ranges>>
  <2>1. EntryListed(e) /\ outcome' = "failed"
    BY <1>2 DEF ExtractEntry, EntryListed, Fail
  <2>2. QED
    BY <1>2, <2>1, Passed, NotUnpacked
<1>3. CASE e.dir /\ MakeDirectory(e) /\ UNCHANGED compressed_ranges
  <2>1. EntryListed(e)
    BY <1>3 DEF ExtractEntry, EntryListed, MakeDirectory, Fail, Continue
  <2>2. QED
    BY <1>3, <2>1, Passed, NotUnpacked
<1>4. CASE ExtractFile(e)
  <2>1. PICK p \in Positions(e.start) :
          IF Overlapping(e, p)
          THEN Skip /\ UNCHANGED <<compressed_ranges, files>>
          ELSE /\ compressed_ranges' = InsertAt(compressed_ranges, p, <<e.start, e.end>>)
               /\ IF e.bomb THEN Skip /\ UNCHANGED files ELSE WriteOut(e)
    BY <1>4 DEF ExtractFile
  <2>2. EntryListed(e)
    BY <2>1 DEF ExtractEntry, EntryListed, WriteOut, Skip, Fail, Continue
  <2>3. CASE Overlapping(e, p)
    <3>1. Number \in reported'
      BY <2>1, <2>3 DEF Skip
    <3>2. QED
      BY <2>1, <2>2, <2>3, <3>1, Passed, NotUnpacked
  <2>4. CASE ~Overlapping(e, p)
    BY <2>1, <2>2, <2>4, Unpacks
  <2>5. QED
    BY <2>3, <2>4
<1>5. QED
  BY <1>1, <1>2, <1>3, <1>4 DEF ExtractEntry, NoParent

LEMMA EndKeeps ==
  ASSUME ExtractInv, DirectoryEnds \/ NextEntryFails
  PROVE  ExtractInv'
<1>1. /\ outcome = "running" /\ outcome' \in {"done", "failed"}
      /\ UNCHANGED <<listed, compressed_ranges, reported>>
  BY DEF DirectoryEnds, NextEntryFails
<1>2. Unpacked' \subseteq Unpacked
  BY <1>1 DEF Unpacked, Entered
<1>3. ExtractTypeOK' /\ Ordered'
  BY <1>1 DEF ExtractInv, ExtractTypeOK, Ordered, SideBySide
<1>4. Covered' /\ RangesDisjoint'
  BY <1>1, <1>2 DEF ExtractInv, Covered, RangesDisjoint
<1>5. QED
  BY <1>3, <1>4 DEF ExtractInv

LEMMA ExtractInvHolds == ExtractSpec => []ExtractInv
<1>1. ExtractInit => ExtractInv
  <2>1. SUFFICES ASSUME ExtractInit PROVE ExtractInv
    OBVIOUS
  <2>2. /\ listed = <<>> /\ compressed_ranges = <<>> /\ reported = {}
        /\ outcome = "running"
    BY <2>1 DEF ExtractInit
  <2>3. listed \in Seq(Listed) /\ compressed_ranges \in Seq(Nat \X Nat)
    BY <2>2
  <2>4. Len(listed) = 0 /\ Len(compressed_ranges) = 0
    BY <2>2
  <2>5. DOMAIN listed = 1..0
    BY <2>3, <2>4, LenProperties
  <2>6. Unpacked = {}
    BY <2>5 DEF Unpacked
  <2>7. ExtractTypeOK /\ Ordered
    BY <2>2, <2>3, <2>4 DEF ExtractTypeOK, Ordered, SideBySide
  <2>8. QED
    BY <2>6, <2>7 DEF ExtractInv, Covered, RangesDisjoint
<1>2. ExtractInv /\ [ExtractNext]_extractVars => ExtractInv'
  <2>1. SUFFICES ASSUME ExtractInv, [ExtractNext]_extractVars PROVE ExtractInv'
    OBVIOUS
  <2>2. CASE UNCHANGED extractVars
    BY <2>1, <2>2 DEF extractVars, ExtractInv, ExtractTypeOK, Ordered, SideBySide,
                      Covered, RangesDisjoint, Unpacked, Entered
  <2>3. CASE \E e \in Listed : ExtractEntry(e)
    BY <2>1, <2>3, ExtractEntryKeeps
  <2>4. CASE DirectoryEnds \/ NextEntryFails
    BY <2>1, <2>4, EndKeeps
  <2>5. QED
    BY <2>1, <2>2, <2>3, <2>4 DEF ExtractNext
<1>3. QED
  BY <1>1, <1>2, PTL DEF ExtractSpec

(***************************************************************************)
(* extract.rs: whatever a directory lists, in whatever order, no byte of   *)
(* the archive comes out in two files.                                     *)
(***************************************************************************)
THEOREM NothingTwice == ExtractSpec => []RangesDisjoint
<1>1. ExtractInv => RangesDisjoint
  BY DEF ExtractInv
<1>2. QED
  BY <1>1, ExtractInvHolds, PTL

-----------------------------------------------------------------------------
(* Nothing is left out.                                                    *)

\* The entry is at its path, whole, or a later one is.
InPlace(i) ==
  /\ listed[i].path \in DOMAIN files
  /\ LET made == files[listed[i].path]
     IN  \/ made.entry > i
         \/ /\ made.entry = i
            /\ made.is = IF listed[i].dir THEN "directory" ELSE "whole"
            /\ listed[i].dir \/ listed[i].sound

(***************************************************************************)
(* Until the extraction fails this holds of every entry so far: one that   *)
(* could not be written whole has ended the extraction or was reported.    *)
(***************************************************************************)
AllInPlace ==
  outcome # "failed" => \A i \in 1..Len(listed) : i \notin reported => InPlace(i)

\* What is made of a path later than an entry leaves the entry in place, or
\* stands in its place.
LEMMA MadeLater ==
  ASSUME ExtractTypeOK, NEW e \in Listed, EntryListed(e), NEW how,
         UNCHANGED files \/ Make(e.path, how),
         NEW i \in 1..Len(listed), InPlace(i)
  PROVE  InPlace(i)'
<1>1. listed'[i] = listed[i] /\ Number > i /\ i \in Nat
  BY ListedFacts
<1>2. CASE UNCHANGED files
  BY <1>1, <1>2 DEF InPlace
<1>3. CASE Make(e.path, how)
  <2> DEFINE path == listed[i].path
  <2>1. path \in DOMAIN files /\ path \in DOMAIN files'
    BY <1>3 DEF InPlace, Make
  <2>2. CASE path = e.path
    <3>1. files'[path].entry = Number
      BY <1>3, <2>1, <2>2 DEF Make
    <3>2. QED
      BY <1>1, <2>1, <3>1 DEF InPlace
  <2>3. CASE path # e.path
    <3>1. files'[path] = files[path]
      BY <1>3, <2>1, <2>3 DEF Make
    <3>2. QED
      BY <1>1, <2>1, <3>1 DEF InPlace
  <2>4. QED
    BY <2>2, <2>3
<1>4. QED
  BY <1>2, <1>3

\* An entry is reported, ends the extraction, or is made whole.
LEMMA EntryInPlace ==
  ASSUME ExtractInv, AllInPlace, NEW e \in Listed, EntryListed(e), NEW how,
         \/ UNCHANGED files /\ (Skip \/ Fail)
         \/ Make(e.path, how) /\ (Skip \/ Fail)
         \/ /\ Make(e.path, how) /\ Continue
            /\ how = IF e.dir THEN "directory" ELSE "whole"
            /\ e.dir \/ e.sound
  PROVE  AllInPlace'
<1> SUFFICES ASSUME outcome' # "failed",
                    NEW i \in 1..Len(listed'), i \notin reported'
             PROVE  InPlace(i)'
  BY DEF AllInPlace
<1>1. /\ ExtractTypeOK /\ Len(listed') = Number /\ Number = Len(listed) + 1
      /\ Number \in Nat /\ Len(listed) \in Nat /\ listed'[Number] = e
      /\ outcome = "running" /\ reported \subseteq reported'
  BY ListedFacts, LenProperties DEF ExtractInv, ExtractTypeOK, EntryListed
<1>2. CASE i = Number
  <2>1. /\ Make(e.path, how) /\ how = IF e.dir THEN "directory" ELSE "whole"
        /\ e.dir \/ e.sound
    BY <1>2 DEF Skip, Fail
  <2>2. e.path \in DOMAIN files' /\ files'[e.path] = [entry |-> Number, is |-> how]
    BY <2>1 DEF Make
  <2>3. QED
    BY <1>1, <1>2, <2>1, <2>2 DEF InPlace
<1>3. CASE i \in 1..Len(listed)
  <2>1. InPlace(i)
    BY <1>1, <1>3 DEF AllInPlace
  <2>2. QED
    BY <1>1, <1>3, <2>1, MadeLater
<1>4. QED
  BY <1>1, <1>2, <1>3

LEMMA ExtractEntryPlaces ==
  ASSUME ExtractInv, AllInPlace, NEW e \in Listed, ExtractEntry(e)
  PROVE  AllInPlace'
<1>1. CASE UNCHANGED files /\ (Skip \/ Fail)
  <2>1. EntryListed(e)
    BY <1>1 DEF ExtractEntry, EntryListed, Skip, Fail
  <2>2. QED
    BY <1>1, <2>1, EntryInPlace
<1>2. CASE e.dir /\ Make(e.path, "directory") /\ Continue
  <2>1. EntryListed(e)
    BY <1>2 DEF ExtractEntry, EntryListed, Continue
  <2>2. QED
    BY <1>2, <2>1, EntryInPlace
<1>3. CASE ~e.dir /\ WriteOut(e)
  <2>1. EntryListed(e)
    BY <1>3 DEF ExtractEntry, EntryListed, WriteOut, Skip, Fail, Continue
  <2>2. CASE Make(e.path, "empty") /\ Skip
    BY <2>1, <2>2, EntryInPlace
  <2>3. CASE Make(e.path, "part") /\ Fail
    BY <2>1, <2>3, EntryInPlace
  <2>4. CASE Make(e.path, "whole") /\ e.sound /\ (Fail \/ Continue)
    BY <1>3, <2>1, <2>4, EntryInPlace
  <2>5. QED
    BY <1>1, <1>3, <2>2, <2>3, <2>4 DEF WriteOut
<1>4. CASE ~e.dir /\ ExtractFile(e)
  BY <1>1, <1>3, <1>4 DEF ExtractFile
<1>5. QED
  BY <1>1, <1>2, <1>3, <1>4 DEF ExtractEntry, MakeDirectory, NoParent

(***************************************************************************)
(* extract.rs: an extraction that ends well has made every entry whole,    *)
(* or has reported it, or a later entry of the same name is in its place.  *)
(***************************************************************************)
THEOREM NothingLeftOut == ExtractSpec => []ExtractedOrReported
<1>1. ExtractInit => AllInPlace
  BY DEF ExtractInit, AllInPlace
<1>2. ExtractInv /\ AllInPlace /\ [ExtractNext]_extractVars => AllInPlace'
  <2> SUFFICES ASSUME ExtractInv, AllInPlace, [ExtractNext]_extractVars
               PROVE  AllInPlace'
    OBVIOUS
  <2>1. CASE \E e \in Listed : ExtractEntry(e)
    BY <2>1, ExtractEntryPlaces
  <2>2. CASE DirectoryEnds \/ NextEntryFails \/ UNCHANGED extractVars
    <3>1. UNCHANGED <<listed, files, reported>> /\ (outcome' # "failed" => outcome # "failed")
      BY <2>2 DEF DirectoryEnds, NextEntryFails, extractVars
    <3>2. QED
      BY <3>1 DEF AllInPlace, InPlace
  <2>3. QED
    BY <2>1, <2>2 DEF ExtractNext
<1>3. ExtractInv /\ AllInPlace => ExtractedOrReported
  BY LenProperties DEF ExtractInv, ExtractTypeOK, AllInPlace, InPlace, ExtractedOrReported
<1>4. QED
  BY <1>1, <1>2, <1>3, ExtractInvHolds, PTL DEF ExtractSpec

=============================================================================

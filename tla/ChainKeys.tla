----------------------------- MODULE ChainKeys -----------------------------
(***************************************************************************)
(* Keys and signatures of the chain's curves: their texts and bytes, what  *)
(* of a message each curve signs, and how a transaction and a link to an   *)
(* account of another chain are signed.                                    *)
(*                                                                         *)
(* Bytes are a sequence of parts, each with its size.  Hashes and          *)
(* signatures are ideal: a part that names what it was made of.            *)
(***************************************************************************)
EXTENDS ChainText

CurveTypes == <<"K1", "R1", "WA", "EM", "ED", "BLS">>
TypeIndex(type) == CHOOSE i \in 0..5 : CurveTypes[i + 1] = type

\* K1 and EM are one curve.
CurveOf(type) == IF type = "EM" THEN "K1" ELSE type

Part(content, size) == << <<content, size>> >>
One(n) == Part(<<"byte", n>>, 1)
ByteCount(data) ==
    LET count[i \in 0..Len(data)] == IF i = 0 THEN 0 ELSE count[i - 1] + data[i][2]
    IN  count[Len(data)]

\* What throws, where bytes are expected.
NoBytes == Part(<<"none">>, -1)

Sha256(m) == <<"sha256", m>>
HexText(m) == <<"hex", m>>
PersonalMessage(m) == <<"eip191", m>>

---------------------------------------------------------------------------
(* Texts: the bytes, in base 58, hex or base 64.  A clean text has only    *)
(* characters that are in the other alphabets too.                         *)

Text(form, data, clean) == [form |-> form, data |-> data, clean |-> clean]
Misread(text) == Part(<<"misread", text.form>>, 0)

Base58Text(data, clean) == Text("58", data, clean)
ReadBase58(text) == IF text.form = "58" THEN text.data ELSE IF text.clean THEN Misread(text) ELSE NoBytes
ReadHex(text) == IF text.form = "hex" THEN text.data ELSE IF text.clean THEN Misread(text) ELSE NoBytes

\* The last four bytes; a suffix is hashed with the data.
CheckOf(data, suffix) == Part(<<"ripemd160", data, suffix>>, 4)
WithCheck(data, suffix) == data \o CheckOf(data, suffix)

AnySize == -1

\* decodeRipemd160Check, decodeCheck (suffix "dsha256") and, of base 64, blsDecode.
Unchecked(data, size, suffix) ==
    IF data = NoBytes \/ Len(data) < 2 THEN NoBytes
    ELSE LET front == Front(data)
         IN  IF (size = AnySize \/ ByteCount(front) = size) /\ data = WithCheck(front, suffix)
             THEN front ELSE NoBytes

ReadBls(text, size) == IF text.form = "64" THEN Unchecked(text.data, size, "") ELSE NoBytes

OrHex(data, text) == IF data # NoBytes THEN data ELSE ReadHex(text)

KeyOf(type, data) == IF data = NoBytes THEN Throws ELSE [type |-> type, data |-> data]

Sized(type, data, sizes) == type \in DOMAIN sizes => ByteCount(data) = sizes[type]

---------------------------------------------------------------------------
(* Public keys.                                                            *)

PublicSizes == [K1 |-> 33, R1 |-> 33, EM |-> 33, ED |-> 32, BLS |-> 96]
PublicBytes(type, secret) == Part(<<"public", CurveOf(type), secret>>, PublicSizes[type])

CompressedSizes == [K1 |-> 33, R1 |-> 33, EM |-> 33]

PublicToText(key, clean) ==
    IF ~Sized(key.type, key.data, CompressedSizes) THEN Throws
    ELSE [prefix |-> "PUB", type |-> key.type,
          text |-> CASE key.type = "BLS" -> Text("64", WithCheck(key.data, ""), clean)
                     [] key.type \in {"K1", "R1"} -> Base58Text(WithCheck(key.data, key.type), clean)
                     [] key.type = "ED" -> Base58Text(key.data, clean)
                     [] OTHER -> Text("hex", key.data, clean)]

PublicToHex(key, clean) ==
    IF ~Sized(key.type, key.data, CompressedSizes) THEN Throws
    ELSE [prefix |-> "PUB", type |-> key.type, text |-> Text("hex", key.data, clean)]

PublicToLegacy(key) ==
    IF key.type \notin {"K1", "EM"} THEN Throws
    ELSE [prefix |-> "SYS", type |-> "", text |-> Base58Text(WithCheck(key.data, ""), FALSE)]

PublicFromText(t) ==
    IF t.prefix = "PUB"
    THEN CASE t.type = "BLS" -> KeyOf("BLS", ReadBls(t.text, 96))
           [] t.type = "ED" -> KeyOf("ED", OrHex(ReadBase58(t.text), t.text))
           [] OTHER ->
                  LET size == IF t.type \in DOMAIN CompressedSizes THEN CompressedSizes[t.type] ELSE AnySize
                  IN  KeyOf(t.type, OrHex(Unchecked(ReadBase58(t.text), size, t.type), t.text))
    ELSE KeyOf("K1", Unchecked(ReadBase58(t.text), AnySize, ""))

---------------------------------------------------------------------------
(* Private keys.                                                           *)

SecretSizes == [K1 |-> 32, R1 |-> 32, EM |-> 32, ED |-> 64, BLS |-> 32]
SecretBytes(type, secret) == Part(<<"secret", CurveOf(type), secret>>, SecretSizes[type])

PrivateKey(type, data) ==
    IF data = NoBytes \/ ~Sized(type, data, SecretSizes) THEN Throws ELSE KeyOf(type, data)

PrivateToText(key) ==
    [prefix |-> "PVT", type |-> key.type,
     text |-> IF key.type = "BLS" THEN Text("64", WithCheck(key.data, ""), FALSE)
              ELSE Base58Text(WithCheck(key.data, key.type), FALSE)]

PrivateToWif(key) ==
    IF key.type \notin {"K1", "EM"} THEN Throws
    ELSE [prefix |-> "", type |-> "", text |-> Base58Text(WithCheck(One(128) \o key.data, "dsha256"), FALSE)]

PrivateFromText(t) ==
    IF t.prefix = "PVT"
    THEN IF t.type = "BLS" THEN PrivateKey("BLS", ReadBls(t.text, 32))
         ELSE LET size == IF t.type \in {"K1", "R1", "EM"} THEN 32 ELSE AnySize
              IN  PrivateKey(t.type, OrHex(Unchecked(ReadBase58(t.text), size, t.type), t.text))
    ELSE LET data == Unchecked(ReadBase58(t.text), AnySize, "dsha256")
         IN  IF data = NoBytes \/ Head(data) # Head(One(128)) THEN Throws ELSE PrivateKey("K1", Tail(data))

\* getPublic of a private key's bytes.
ToPublic(key) == KeyOf(key.type, PublicBytes(key.type, key.data[1][1][3]))

---------------------------------------------------------------------------
(* Signing and verifying.  A signature has the bit that tells which of two *)
(* keys is the signer's, kept with an offset: 31 here, 27 in Ethereum.     *)

WireOffset == 31
EthOffset == 27
Recovery == WireOffset - EthOffset

\* What is hashed or signed of a message, by the curve.
SignedOf(type, m) == IF type = "EM" THEN PersonalMessage(m) ELSE m

R(curve, secret, signed, recid) == Part(<<"r", curve, secret, signed, recid>>, 32)
S(curve, secret, signed, recid) == Part(<<"s", curve, secret, signed, recid>>, 32)

SignatureFromParts(type, r, s, recid) ==
    [type |-> type,
     data |-> CASE type = "ED" -> r \o s
                [] type = "BLS" -> r
                [] OTHER -> One(recid + WireOffset) \o r \o s]

SignBytes(key, m, recid) ==
    LET secret == key.data[1][1][3]
        signed == SignedOf(key.type, m)
        curve == CurveOf(key.type)
    IN  IF key.type = "BLS" THEN SignatureFromParts("BLS", Part(<<"bls", secret, signed>>, 192), <<>>, 0)
        ELSE SignatureFromParts(key.type, R(curve, secret, signed, recid), S(curve, secret, signed, recid), recid)

SignDigest(key, digest, recid) == SignBytes(key, digest, recid)

SignMessage(key, m, recid) ==
    SignBytes(key, IF key.type \in {"ED", "BLS", "EM"} THEN m ELSE Sha256(m), recid)

\* Mutant: the offset of the wire is sent to Ethereum.
ToEthereumKeepsOffset(wire) == <<wire[2], wire[3]>> \o One(wire[1][1][2])

ToEthereum(wire) == <<wire[2], wire[3]>> \o One(wire[1][1][2] - Recovery)

FromEthereum(raw) == One(raw[3][1][2] + Recovery) \o <<raw[1], raw[2]>>

\* The key that made r and s over what is signed, if the bit is the right one.
Recovered(curve, r, s, recid, signed) ==
    IF /\ <<r>> = R(curve, r[1][3], signed, recid)
       /\ <<s>> = S(curve, r[1][3], signed, recid)
    THEN Part(<<"public", curve, r[1][3]>>, 33) ELSE Part(<<"public", curve, "nobody">>, 33)

VerifyBytes(type, data, m, public) ==
    LET signer == public[1][1][3]
        curve == CurveOf(type)
        by(recid) == R(curve, signer, m, recid) \o S(curve, signer, m, recid)
    IN  /\ public = PublicBytes(type, signer)
        /\ CASE type = "EM" -> Recovered(curve, data[1], data[2], data[3][1][2] - EthOffset, PersonalMessage(m)) = public
             [] type = "ED" -> \E recid \in {0, 1} : data = by(recid)
             [] type = "BLS" -> data = Part(<<"bls", signer, m>>, 192)
             [] OTHER -> \E recid \in {0, 1} : Tail(data) = by(recid)

VerifyDigest(sig, digest, key) ==
    VerifyBytes(sig.type, IF sig.type = "EM" THEN ToEthereum(sig.data) ELSE sig.data, digest, key.data)

VerifyMessage(sig, m, key) ==
    IF sig.type \in {"K1", "R1"} THEN VerifyDigest(sig, Sha256(m), key)
    ELSE VerifyBytes(sig.type, IF sig.type = "EM" THEN ToEthereum(sig.data) ELSE sig.data, m, key.data)

RecoverDigest(sig, digest) ==
    IF sig.type \in {"ED", "BLS"} THEN Throws
    ELSE KeyOf(sig.type, Recovered(CurveOf(sig.type), sig.data[2], sig.data[3],
                                   sig.data[1][1][2] - WireOffset, SignedOf(sig.type, digest)))

RecoverMessage(sig, m) == RecoverDigest(sig, IF sig.type = "EM" THEN m ELSE Sha256(m))

---------------------------------------------------------------------------
(* Signatures as texts and bytes.                                          *)

SignatureToText(sig, clean) ==
    [prefix |-> "SIG", type |-> sig.type,
     text |-> CASE sig.type = "BLS" -> Text("64", WithCheck(sig.data, ""), clean)
                [] sig.type = "EM" -> Text("hex", ToEthereum(sig.data), clean)
                [] sig.type = "ED" -> Base58Text(sig.data, clean)
                [] OTHER -> Base58Text(WithCheck(sig.data, sig.type), clean)]

SignatureFromText(t) ==
    CASE t.type = "BLS" -> KeyOf("BLS", ReadBls(t.text, 192))
      [] t.type = "ED" -> KeyOf("ED", OrHex(ReadBase58(t.text), t.text))
      [] t.type = "EM" -> LET raw == ReadHex(t.text)
                          IN  IF ByteCount(raw) # 65 \/ Len(raw) # 3 THEN Throws ELSE KeyOf("EM", FromEthereum(raw))
      [] OTHER -> LET size == IF t.type \in {"K1", "R1"} THEN 65 ELSE AnySize
                  IN  KeyOf(t.type, OrHex(Unchecked(ReadBase58(t.text), size, t.type), t.text))

FromRawBytes(type, raw) ==
    IF ByteCount(raw) # IF type = "ED" THEN 64 ELSE 65 THEN Throws
    ELSE KeyOf(type, CASE type = "ED" -> raw
                       [] type = "EM" -> FromEthereum(raw)
                       [] OTHER -> One(raw[3][1][2] + WireOffset) \o <<raw[1], raw[2]>>)

ToHexBytes(sig) ==
    CASE sig.type = "EM" -> ToEthereum(sig.data)
      [] sig.type \in {"K1", "R1"} -> <<sig.data[2], sig.data[3]>> \o One(sig.data[1][1][2] - WireOffset)
      [] sig.type = "ED" -> sig.data
      [] OTHER -> NoBytes

SignatureToAbi(sig) ==
    One(TypeIndex(sig.type)) \o (IF sig.type = "EM" THEN ToEthereum(sig.data) ELSE sig.data)

\* The next bytes of this size, and what is left.
ReadArray(data, size) ==
    LET n == CHOOSE n \in 0..Len(data) : ByteCount(SubSeq(data, 1, n)) = size
    IN  [data |-> SubSeq(data, 1, n), rest |-> SubSeq(data, n + 1, Len(data))]

SignatureFromAbi(data) ==
    LET type == CurveTypes[data[1][1][2] + 1]
        got == ReadArray(Tail(data), CASE type = "BLS" -> 192 [] type = "ED" -> 64 [] OTHER -> 65)
    IN  [sig |-> KeyOf(type, IF type = "EM" THEN FromEthereum(got.data) ELSE got.data), rest |-> got.rest]

PublicToAbi(key) == One(TypeIndex(key.type)) \o key.data

PublicFromAbi(data) ==
    LET type == CurveTypes[data[1][1][2] + 1]
        got == ReadArray(Tail(data), CASE type = "BLS" -> 96 [] type = "ED" -> 32 [] OTHER -> 33)
    IN  [key |-> KeyOf(type, got.data), rest |-> got.rest]

\* A transaction's signatures all have 65 bytes.
PadEdForTx(sig) == IF sig.type = "ED" /\ ByteCount(sig.data) = 64 THEN [sig EXCEPT !.data = @ \o One(0)] ELSE sig
StripEdPad(sig) ==
    IF sig.type = "ED" /\ ByteCount(sig.data) = 65 /\ <<Last(sig.data)>> = One(0)
    THEN [sig EXCEPT !.data = Front(@)] ELSE sig

---------------------------------------------------------------------------
(* Transactions, by the signer of an application: a wallet of another      *)
(* chain, which knows only its own way to sign a message, or a key.        *)

SigningDigest(chain, trx) == Sha256(<<"signing", chain, trx>>)
SigningBytes(chain, trx, type) ==
    IF type = "ED" THEN HexText(SigningDigest(chain, trx)) ELSE SigningDigest(chain, trx)

\* signMessage of the wallets of Ethereum and Solana; createClassicSigner.
ExternalSign(key, m, recid) ==
    CASE key.type = "EM" -> ToEthereum(SignBytes(key, m, recid).data)
      [] key.type = "ED" -> SignBytes(key, m, recid).data
      [] OTHER -> ToHexBytes(SignDigest(key, m, recid))

SignTransaction(key, chain, trx, recid) ==
    FromRawBytes(key.type, ExternalSign(key, SigningBytes(chain, trx, key.type), recid))

\* PackedTransaction.fromSigned as JSON, and getSignedTransaction.
Packed(sig) == SignatureToText(PadEdForTx(sig), FALSE)
Unpacked(text) == StripEdPad(SignatureFromText(text))

---------------------------------------------------------------------------
(* Links of an account to a key of Ethereum or Solana.                     *)

LinkTypes == [EVM |-> "EM", SVM |-> "ED"]

LinkMessage(key, account, kind, nonce) == <<"link", PublicToText(key, FALSE), account, kind, nonce>>

\* The bytes the wallet signs; Solana's shows them as text.
LinkPayload(m, kind) == IF kind = "EVM" THEN <<"keccak256", m>> ELSE HexText(<<"printable", Sha256(m)>>)

LinkSignature(raw, key, kind) ==
    IF key.type # LinkTypes[kind] THEN Throws
    ELSE IF kind = "EVM" THEN FromRawBytes("EM", raw)
    ELSE IF ByteCount(raw) = 96 THEN KeyOf("ED", raw)
    ELSE IF ByteCount(raw) = 64 THEN KeyOf("ED", key.data \o raw) ELSE Throws

SignCreateLink(private, account, kind, nonce, recid) ==
    LET key == ToPublic(private)
        m == LinkMessage(key, account, kind, nonce)
    IN  IF key.type # LinkTypes[kind] THEN Throws
        ELSE LinkSignature(ExternalSign(private, LinkPayload(m, kind), recid), key, kind)
=============================================================================

---------------------------- MODULE ChainValues ----------------------------
(***************************************************************************)
(* What is said of the values of the chain types, and of quotes and        *)
(* prices: one input is picked, of any that there are.                     *)
(***************************************************************************)
EXTENDS ChainKeys, SwapQuotes, ResourcePricing

CONSTANTS
    Owners,             \* of keys
    Contents,           \* what is signed: messages, chains, transactions, accounts, nonces
    Amounts, Slips      \* what is asked for: units of a token, tolerances

\* No message is its own hash, and nobody signs what was not signed.
ASSUME ValuesAssumption ==
    /\ \A m \in Contents : Sha256(m) # m
    /\ "nobody" \notin Owners
    /\ Amounts \subseteq Int /\ Slips \subseteq Int
    /\ IntWidth <= 8

VARIABLE input

Is(kind) == input # <<>> /\ input[1] = kind

---------------------------------------------------------------------------
(* Inputs.                                                                 *)

TypedIntegers == {i \in [value : Int, type : IntTypes] : Fits(i.value, i.type)}

IntegerInputs ==
    ({"ints"} \X TypedIntegers \X TypedIntegers) \cup ({"number"} \X Int \X IntTypes)
        \cup ({"uint256"} \X (0..MaxUInt256) \X (0..MaxUInt256)) \cup ({"asset"} \X Int \X Nat)

Markets == [weight : Nat \ {0}, utilization : Nat, adjusted : Nat, exponent : Nat \ {0},
            minPrice : Nat, maxPrice : Nat]

PricedInputs ==
    ({"quote"} \X PoolRecords \X YieldRecords) \cup ({"ram"} \X Nat \X Nat)
        \cup ({"powerup"} \X {r \in Markets : r.minPrice <= r.maxPrice} \X (Nat \ {0}))
        \cup ({"sample"} \X Nat \X (Nat \ {0}))

TimeTypes == {"point", "sec", "block"}
TimeValues == {t \in [kind : TimeTypes, value : Nat] : t.kind # "point" => Fits(t.value, SecType)}

WrittenInputs ==
    ({"name"} \X Seq(Int)) \cup ({"packed name"} \X (0..(Power(2, NameBits) - 1)))
        \cup ({"slug"} \X Seq(Nat)) \cup ({"packed slug"} \X (0..(Power(SlugBase, SlugChars) - 1)))
        \cup ({"symbol"} \X Nat) \cup ({"asset text"} \X Int \X Nat \X Seq(Nat))
        \cup ({"times"} \X TimeValues \X TimeValues)
        \cup ({"block"} \X [high : Nat, low : Nat] \X (0..MaxOf(SecType)))
        \cup ({"data58"} \X Seq(0..(ByteValues - 1)))
        \cup ({"text58"} \X Seq({FarAlien, Alien} \cup 0..(TextBase - 1)))
        \cup ({"data64"} \X Seq(0..(Power(2, OctetBits) - 1)))

SigningTypes == {"K1", "R1", "EM", "ED", "BLS"}

KeyInputs ==
    ({"key"} \X SigningTypes \X Owners \X BOOLEAN) \cup ({"sign"} \X SigningTypes \X Owners \X {0, 1})

ChainInputs == IntegerInputs \cup PricedInputs \cup WrittenInputs \cup KeyInputs

ValuesInit == input = <<>>
ValuesNext == input = <<>> /\ input' \in ChainInputs
ValuesSpec == ValuesInit /\ [][ValuesNext]_input

---------------------------------------------------------------------------
(* Integers.                                                               *)

Wrapped(n, type) == FromTwos(n % Size(type), type)

\* What truncation gets right: all but negative numbers under the signed range.
NotFarBelow(n, type) == n >= -(Size(type) \div 2)

(***************************************************************************)
(* "Follows C++11 standard for arithmetic operators and conversions": the  *)
(* result is the exact one modulo the width of the common type, which      *)
(* holds both operands' bits; a cast keeps the bits or extends the sign.   *)
(* Not so for exact results below the signed range, see TruncateIsModular. *)
(***************************************************************************)
ArithmeticWraps ==
    /\ Is("ints") =>
           LET a == input[2]
               b == input[3]
               ab == CommonType(Promote(a).type, Promote(b).type)
               x == Wrapped(a.value, ab)
               y == Wrapped(b.value, ab)
           IN  /\ Cast(a, b.type).value = Wrapped(a.value, b.type)
               /\ \A op \in {"add", "sub", "mul"} :
                      NotFarBelow(Exact(op, x, y), ab) =>
                          /\ Operator(op, a, b).value = Wrapped(Exact(op, x, y), ab)
                          /\ Operating(op, a, b).value = Wrapped(Exact(op, x, y), a.type)
               /\ x >= 0 /\ y > 0 =>
                      LET quotient(op) == Exact(op, x, y)
                      IN  /\ quotient("div") * y <= x /\ x < (quotient("div") + 1) * y
                          /\ (quotient("divCeil") - 1) * y < x /\ x <= quotient("divCeil") * y
                          /\ 2 * quotient("divRound") * y - y <= 2 * x
                          /\ 2 * x < 2 * quotient("divRound") * y + y
    /\ Is("number") =>
           LET clamped == FromNumber(input[2], input[3], "clamp").value
           IN  /\ Fits(clamped, input[3])
               /\ Fits(input[2], input[3]) => clamped = input[2]
               /\ NotFarBelow(input[2], input[3]) =>
                      FromNumber(input[2], input[3], "truncate").value = Wrapped(input[2], input[3])

(***************************************************************************)
(* "truncate: Truncates or extends bit-pattern with sign extension (C++11  *)
(* behavior)" (Integer.ts:32): the number modulo the width.  The code does *)
(* something else to a negative number whose two's complement, in the      *)
(* width, begins with bytes of zero: it fills them with ones.              *)
(***************************************************************************)
TruncateIsModular ==
    Is("number") /\ input[2] > -Size(input[3]) =>
        FromNumber(input[2], input[3], "truncate").value = Wrapped(input[2], input[3])

(***************************************************************************)
(* UInt256: a sum less one of its terms is the other, a product divided by *)
(* a factor is not more than the other and short of it by less than the    *)
(* rounding; what does not fit is thrown, never wrapped.  An amount of an  *)
(* asset is read back from its text, with its precision.                   *)
(***************************************************************************)
AmountsAreExact ==
    /\ Is("uint256") =>
           LET a == FromRaw(input[2])
               b == FromRaw(input[3])
               sum == UAdd(a, b)
               product == UMultiply(a, b)
           IN  /\ sum = Throws <=> input[2] + input[3] > MaxUInt256
               /\ sum # Throws => USubtract(sum, b) = a
               /\ USubtract(a, b) = Throws <=> input[2] < input[3]
               /\ product # Throws /\ input[3] > 0 =>
                      LET back == UDivide(product, b)
                      IN  back # Throws => /\ Raw(back) <= input[2]
                                           /\ (input[2] - Raw(back) - 1) * input[3] < Scale
    /\ Is("asset") =>
           ParseUnits(FormatUnits(input[2], input[3])) = [units |-> input[2], precision |-> input[3]]

---------------------------------------------------------------------------
(* Quotes and prices.                                                      *)

(***************************************************************************)
(* A trade never takes from those who hold the pool: the product of the    *)
(* reserves does not fall, no leg is emptied, and who trades the output    *)
(* back gets no more than was put in, whether the fee stays in the pool or *)
(* not.  The quote is the same before and after the yield is credited, and *)
(* the minimum is never over the output.                                   *)
(***************************************************************************)
TradesKeepTheProduct ==
    Is("quote") =>
        \A inFirst \in BOOLEAN, amount \in Amounts, slip \in Slips :
            TradeKeepsTheProduct(input[2], input[3], inFirst, amount, slip)

(***************************************************************************)
(* Shares keep their worth: minting adds at least in proportion to both    *)
(* reserves and burning takes at most in proportion, so minting and        *)
(* burning the same shares, in either order, gives no more than was paid,  *)
(* and the pool never falls under its locked shares.                       *)
(***************************************************************************)
SharesKeepTheirWorth ==
    Is("quote") =>
        \A shares \in Amounts, slip \in Slips : SharesKeepWorth(input[2], input[3], shares, slip)

Int64 == IntType(8, TRUE)
Wide(n) == [value |-> n, type |-> Int64]

(***************************************************************************)
(* More never costs less.  RAM is sold so that the product of the market's *)
(* connectors does not fall, and for not one unit more than that needs,    *)
(* where what is multiplied fits the type the code multiplies in;          *)
(* the price of CPU and NET grows with the amount and with what is rented  *)
(* already; a sample is never over what the account got.                   *)
(***************************************************************************)
PricesGrow ==
    /\ Is("ram") =>
           \A bytes \in 1..(input[2] - 1) :
               LET base == input[2]
                   quote == input[3]
                   cost == GetInput(Wide(base), Wide(quote), Wide(bytes)).value
               IN  Fits(base, Int64) /\ Fits(quote * base, Int64) =>
                       /\ (quote + cost) * (base - bytes) >= quote * base
                       /\ cost > 0 => (quote + cost - 1) * (base - bytes) < quote * base
    /\ Is("powerup") =>
           LET r == input[2]
           IN  \A adjusted \in AdjustedUtilizations(r), amount \in Amounts \cap Nat :
                   LET price(s, n) == PricePer(s, input[3], n, adjusted)
                   IN  /\ 0 <= price(r, amount) /\ price(r, amount) <= price(r, amount + 1)
                       /\ r.adjusted <= r.utilization =>
                              price(r, amount) <= price([r EXCEPT !.utilization = @ + 1], amount)
    /\ Is("sample") =>
           LET sample == GetSampledUsage(input[2], input[3])
           IN  sample * input[3] <= input[2] * Precision /\ input[2] * Precision < (sample + 2) * input[3]

(***************************************************************************)
(* Arithmetic is exact up to the width of its type, and amounts, which     *)
(* money is counted in, never wrap; quotes and prices are rounded against  *)
(* the one who asks: the statements above and those of the integers.       *)
(***************************************************************************)
ArithmeticIsExact ==
    ArithmeticWraps /\ AmountsAreExact /\ TradesKeepTheProduct /\ SharesKeepTheirWorth /\ PricesGrow

---------------------------------------------------------------------------
(* Texts.                                                                  *)

(***************************************************************************)
(* A name is valid exactly if packing it and reading it back gives the     *)
(* same text ("will not be rewritten when packed", Name.ts:48), and every  *)
(* packed value is read back from its text.                                *)
(***************************************************************************)
NamesAreRead ==
    /\ Is("name") => (IsValidName(input[2]) <=> NameToString(StringToName(input[2])) = input[2])
    /\ Is("packed name") =>
           /\ IsValidName(NameToString(input[2]))
           /\ StringToName(NameToString(input[2])) = input[2]

(***************************************************************************)
(* A slug that is accepted is read back from its packed value, in every    *)
(* carrier; two packed values with one text differ after its end only.     *)
(***************************************************************************)
SlugsAreRead ==
    /\ Is("slug") =>
           LET packed == SlugFrom(input[2])
           IN  packed # Refuses =>
                   /\ SlugToString(packed) = input[2]
                   /\ SlugValue([text |-> TRUE, value |-> input[2]]) =
                          (IF packed <= MaxSafeInteger
                           THEN SlugValue([text |-> FALSE, value |-> packed]) ELSE packed)
    /\ Is("packed slug") =>
           LET text == SlugToString(input[2])
           IN  SlugFrom(text) # Refuses => SlugFrom(text) <= input[2]

(***************************************************************************)
(* A symbol the constructor takes is read back from its precision and      *)
(* name, and an amount of it from its text; of symbol codes all but the    *)
(* empty one.                                                              *)
(***************************************************************************)
SymbolsAreRead ==
    /\ Is("symbol") =>
           LET raw == input[2]
           IN  /\ MakesSymbol(raw) =>
                      /\ SymbolFromParts(SymbolName(raw), SymbolPrecision(raw)) = raw
                      /\ \A units \in Amounts :
                             LET worth == [units |-> units, symbol |-> raw]
                             IN  AssetFromString(AssetToString(worth)) = worth
               /\ MakesSymbolCode(raw) /\ raw # 0 => SymbolCodeFrom(SymbolCodeName(raw)) = raw
    /\ Is("asset text") =>
           LET written == [quantity |-> FormatUnits(input[2], input[3]), name |-> input[4]]
               a == AssetFromString(written)
           IN  a # Throws => MakesSymbol(a.symbol) /\ AssetToString(a) = written

\* The unit of a type in milliseconds, no less than one.
Unit(kind) == CASE kind = "point" -> 1 [] kind = "sec" -> Milli [] kind = "block" -> SlotMs

(***************************************************************************)
(* A time converted to another type is no more than half of the coarser    *)
(* unit off, so one of seconds or slots survives the way to microseconds   *)
(* and back; conversions keep the order of times; and the text of a time   *)
(* is read as a time that equals it.                                       *)
(***************************************************************************)
TimesConvert ==
    Is("times") =>
        LET t == input[2]
            u == input[3]
            as == TimeFrom(u.kind, t)
        IN  /\ as # Throws =>
                   /\ 2 * (ToMilliseconds(as) - ToMilliseconds(t)) \in -Unit(u.kind)..Unit(u.kind)
                   /\ u.kind = "point" => TimeFrom(t.kind, as) = t
                   /\ ToMilliseconds(t) < ToMilliseconds(u) => ToMilliseconds(as) <= ToMilliseconds(u)
            /\ TimeEquals(t, TimeFromString(t.kind, TimeToString(t)))

(***************************************************************************)
(* Bytes in base 58 or 64 are read back, in base 58 of a known size too;   *)
(* a base 58 text that is accepted is the one its bytes are written as,    *)
(* unless it has a character outside of the decoder's table.  The number   *)
(* put into a block id is read back in the lower half of its range.        *)
(***************************************************************************)
BytesAreRead ==
    /\ Is("data58") => /\ Decode58(Encode58(input[2])) = input[2]
                       /\ Decode58Sized(Encode58(input[2]), Len(input[2])) = input[2]
    /\ Is("text58") =>
           LET bytes == Decode58(input[2])
           IN  bytes # Rejected /\ FarAlien \notin Range(input[2]) => Encode58(bytes) = input[2]
    /\ Is("data64") => Decode64u(Encode64u(input[2])) = input[2]
    /\ Is("block") =>
           LET got == BlockNum(FromBlockChecksum(input[2], input[3]))
           IN  got = Throws \/ got.num = input[3]

---------------------------------------------------------------------------
(* Keys and signatures.                                                    *)

Secret(type, owner) == PrivateKey(type, SecretBytes(type, owner))

Relabeled(text, type) == [text EXCEPT !.type = type]

(***************************************************************************)
(* Keys are read back from each of their texts and from bytes, and a text  *)
(* under the label of another type is refused.  But texts of ED have no    *)
(* check: a hex text without zeros is read as base 58, and anything in     *)
(* base 58 is taken; hex has no check either; and a legacy text of an EM   *)
(* key is read as one of K1, which is the same curve.                      *)
(***************************************************************************)
KeysAreRead ==
    Is("key") =>
        LET type == input[2]
            private == Secret(type, input[3])
            key == ToPublic(private)
            clean == input[4]
            text == PublicToText(key, clean)
            hex == PublicToHex(key, clean)
            legacy == PublicToLegacy(key)
            wif == PrivateToWif(private)
            after == One(7)
        IN  /\ PublicFromText(text) = key
            /\ type # "BLS" /\ ~(type = "ED" /\ clean) => PublicFromText(hex) = key
            /\ legacy # Throws => PublicFromText(legacy) = [key EXCEPT !.type = "K1"]
            /\ PublicFromAbi(PublicToAbi(key) \o after) = [key |-> key, rest |-> after]
            /\ PrivateFromText(PrivateToText(private)) = private
            /\ wif # Throws => PrivateFromText(wif) = [private EXCEPT !.type = "K1"]
            /\ \A other \in Range(CurveTypes) \ {type} :
                   /\ \/ PublicFromText(Relabeled(text, other)) = Throws
                      \/ other = "ED" \/ text.text.form = "hex" \/ clean
                   /\ PrivateFromText(Relabeled(PrivateToText(private), other)) = Throws

\* The ways a signature is carried.
Carried(sig) ==
    {SignatureFromText(SignatureToText(sig, FALSE))}
        \cup {SignatureFromAbi(SignatureToAbi(sig)).sig}
        \cup {Unpacked(Packed(sig))}
        \cup (IF ToHexBytes(sig) = NoBytes THEN {} ELSE {FromRawBytes(sig.type, ToHexBytes(sig))})

PublicKeys == {ToPublic(Secret(type, owner)) : type \in SigningTypes, owner \in Owners}

(***************************************************************************)
(* A signature, carried as text, hex, bytes or in a packed transaction,    *)
(* verifies exactly for its message and its signer's key: for the message  *)
(* on its own, in the domain of another type, and by recovering the key.   *)
(***************************************************************************)
SignaturesVerify ==
    Is("sign") =>
        \A message \in Contents :
            LET private == Secret(input[2], input[3])
                key == ToPublic(private)
                sig == SignMessage(private, message, input[4])
            IN  \A carried \in Carried(sig) :
                    /\ carried = sig
                    /\ \A other \in PublicKeys, m \in Contents \cup {Sha256(message), PersonalMessage(message)} :
                           VerifyMessage(carried, m, other) <=> m = message /\ other.data = key.data
                    /\ VerifyDigest(carried, Sha256(message), key) <=> sig.type \in {"K1", "R1"}
                    /\ sig.type \notin {"ED", "BLS"} => RecoverMessage(carried, message) = key

(***************************************************************************)
(* What an application had signed, by a key or by a wallet of another      *)
(* chain, is a signature of this transaction on this chain by its signer;  *)
(* so is the proof of a link one of this account, kind and nonce.          *)
(***************************************************************************)
TransactionsAreSigned ==
    Is("sign") /\ input[2] # "BLS" =>
        \A here, trx \in Contents :
            LET private == Secret(input[2], input[3])
                key == ToPublic(private)
                sig == Unpacked(Packed(SignTransaction(private, here, trx, input[4])))
                accepts(chain, other, k) ==
                    VerifyBytes(sig.type, IF sig.type = "EM" THEN ToEthereum(sig.data) ELSE sig.data,
                                SigningBytes(chain, other, sig.type), k.data)
            IN  \A chain, other \in Contents, k \in PublicKeys :
                    accepts(chain, other, k) <=> chain = here /\ other = trx /\ k.data = key.data

LinksAreSigned ==
    Is("sign") =>
        \A kind \in {"EVM", "SVM"}, account, nonce \in Contents :
            LET private == Secret(input[2], input[3])
                key == ToPublic(private)
                proof == SignCreateLink(private, account, kind, nonce, input[4])
                sig == SignatureFromText(SignatureToText(proof, FALSE))
                accepts(a, n) ==
                    LET payload == LinkPayload(LinkMessage(key, a, kind, n), kind)
                    IN  IF kind = "EVM" THEN VerifyMessage(sig, payload, key)
                        ELSE /\ <<sig.data[1]>> = key.data
                             /\ VerifyMessage([sig EXCEPT !.data = Tail(@)], payload, key)
            IN  IF input[2] # LinkTypes[kind] THEN proof = Throws
                ELSE \A a, n \in Contents : accepts(a, n) <=> a = account /\ n = nonce

(***************************************************************************)
(* Signatures are verified for what they are of and by whom, and nothing   *)
(* else: the three statements above.                                       *)
(***************************************************************************)
SignedIsVerified == SignaturesVerify /\ TransactionsAreSigned /\ LinksAreSigned

(***************************************************************************)
(* What the chain types and the keys write as text or bytes they read      *)
(* back, with the exceptions named above.                                  *)
(***************************************************************************)
TextsAreRead ==
    NamesAreRead /\ SlugsAreRead /\ SymbolsAreRead /\ TimesConvert /\ BytesAreRead /\ KeysAreRead
=============================================================================

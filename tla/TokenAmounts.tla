------------------------------ MODULE TokenAmounts ------------------------------
(* The amount helpers of the SDK (sdk/src/amounts.ts): decimal text to a token's *)
(* smallest unit and back, with the token's decimals, which are read from the     *)
(* token once and cached.  Reads overlap, fail, and may report nonsense.          *)
EXTENDS Integers, Sequences, FiniteSetsExt

CONSTANTS
  MAX_TOKEN_DECIMALS,
  ReportedDecimals,    \* what each token's contract reports
  Texts,               \* what users type
  RawAmounts,          \* amounts that are shown
  MaxTokenReads,
  MaxDigits            \* of an amount

VARIABLES
  tokenInfoCache,      \* the decimals of the tokens that were read
  tokenReads,          \* reads of token info under way, by token
  parsed, shown        \* the last amount typed and the last one shown

amountVars == <<tokenInfoCache, tokenReads, parsed, shown>>

\* Text is its digits before and after the dot; plain if there is nothing else.
Text == [plain : BOOLEAN, whole : Seq(0..9), dot : BOOLEAN, fraction : Seq(0..9)]
ValidDecimals(decimals) == decimals \in 0..MAX_TOKEN_DECIMALS
PowerOfTen(k) ==
  LET power[i \in 0..k] == IF i = 0 THEN 1 ELSE 10 * power[i - 1] IN power[k]
Value(digits) ==
  LET value[i \in 0..Len(digits)] == IF i = 0 THEN 0 ELSE 10 * value[i - 1] + digits[i] IN
  value[Len(digits)]
DigitsOf(n, least) ==
  LET length == Max({least, Min({l \in 1..MaxDigits : n < PowerOfTen(l)})}) IN
  [i \in 1..length |-> (n \div PowerOfTen(length - i)) % 10]

ASSUME AmountAssumption ==
  /\ MAX_TOKEN_DECIMALS \in Nat /\ MaxDigits \in Nat \ {0}
  /\ Texts \subseteq Text
  /\ \A text \in Texts : Len(text.whole) + MAX_TOKEN_DECIMALS <= MaxDigits
  /\ \A n \in RawAmounts : n \in Nat /\ n < PowerOfTen(MaxDigits)

\* A bare dot and a trailing one are refused, a leading one is not.
AMOUNT_PATTERN(text) ==
  text.plain /\ IF text.dot THEN text.fraction # <<>> ELSE text.whole # <<>> /\ text.fraction = <<>>
CanParse(text, decimals) == AMOUNT_PATTERN(text) /\ Len(text.fraction) <= decimals

\* Fault: short fractions are not filled up.
FractionAsTyped(text, decimals) == text.fraction
FractionPart(text, decimals) == text.fraction \o [i \in 1..decimals - Len(text.fraction) |-> 0]
parseAmount(text, decimals) == Value(text.whole \o FractionPart(text, decimals))

formatAmount(n, decimals) ==
  LET digits == DigitsOf(n, decimals + 1)
      whole == SubSeq(digits, 1, Len(digits) - decimals)
      scaled == SubSeq(digits, Len(digits) - decimals + 1, Len(digits))
      fraction == SubSeq(scaled, 1, Max({0} \cup {i \in DOMAIN scaled : scaled[i] # 0})) IN
  [plain |-> TRUE, whole |-> whole, dot |-> fraction # <<>>, fraction |-> fraction]
normaliseAmount(text, decimals) == formatAmount(parseAmount(text, decimals), decimals)
-----------------------------------------------------------------------------
\* getTokenInfo answers from the cache or reads; readers of one token may overlap.
StartRead(token) ==
  /\ token \notin DOMAIN tokenInfoCache /\ tokenReads[token] < MaxTokenReads
  /\ tokenReads' = [tokenReads EXCEPT ![token] = @ + 1]
  /\ UNCHANGED <<tokenInfoCache, parsed, shown>>
ReadEnds(token) ==
  /\ tokenReads[token] > 0
  /\ tokenReads' = [tokenReads EXCEPT ![token] = @ - 1]
  /\ UNCHANGED <<parsed, shown>>
TokenInfoRead(token) ==
  /\ ReadEnds(token) /\ ValidDecimals(ReportedDecimals[token])
  /\ tokenInfoCache' = [t \in DOMAIN tokenInfoCache \cup {token} |-> ReportedDecimals[t]]
TokenInfoFails(token) == ReadEnds(token) /\ UNCHANGED tokenInfoCache
clearTokenInfoCache == tokenInfoCache' = <<>> /\ UNCHANGED <<tokenReads, parsed, shown>>

Enter(token, text) ==
  /\ token \in DOMAIN tokenInfoCache /\ CanParse(text, tokenInfoCache[token])
  /\ parsed' = {[token |-> token, text |-> text,
                 amount |-> parseAmount(text, tokenInfoCache[token]),
                 normal |-> normaliseAmount(text, tokenInfoCache[token])]}
  /\ UNCHANGED <<tokenInfoCache, tokenReads, shown>>
Show(token, n) ==
  /\ token \in DOMAIN tokenInfoCache
  /\ shown' = {[token |-> token, amount |-> n, text |-> formatAmount(n, tokenInfoCache[token])]}
  /\ UNCHANGED <<tokenInfoCache, tokenReads, parsed>>

AmountsInit ==
  /\ tokenInfoCache = <<>> /\ tokenReads = [t \in DOMAIN ReportedDecimals |-> 0]
  /\ parsed = {} /\ shown = {}
AmountsNext ==
  \/ \E token \in DOMAIN ReportedDecimals :
       \/ StartRead(token)
       \/ TokenInfoRead(token)
       \/ TokenInfoFails(token)
       \/ \E text \in Texts : Enter(token, text)
       \/ \E n \in RawAmounts : Show(token, n)
  \/ clearTokenInfoCache
=============================================================================

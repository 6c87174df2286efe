--------------------------- MODULE TransferRequest --------------------------
(***************************************************************************)
(* TransferRequest.validate: what a request must have to be accepted.  A   *)
(* number is given in hundredths; NaN is the double that is not one, and   *)
(* Infinity the one above all numbers, which the JSON parser reads from    *)
(* the texts "NaN" and "Infinity".                                         *)
(***************************************************************************)
EXTENDS Integers, Sequences, SequencesExt, FiniteSetsExt

CONSTANTS Null, NaN, Infinity

Texts == <<"userId", "currencyFrom", "currencyTo", "originatingCountry">>
Numbers == <<"amountBuy", "amountSell", "rate">>

LessThan(value, bound) == value \notin {NaN, Infinity} /\ value < bound
Plus(sum, value) == IF NaN \in {sum, value} THEN NaN
                    ELSE IF Infinity \in {sum, value} THEN Infinity ELSE sum + value

TextMissing(value) == value = Null \/ value = ""

\* Mutant: a number may be zero.
NumberMissingZero(value) == value = Null \/ LessThan(value, 0)

NumberMissing(value) == value = Null \/ LessThan(value, 1)

\* The property that PropertyValueRequired names, the first that is missing in
\* this order, or nothing.
Validate(request) ==
    LET missing(p) == CASE Contains(Texts, p)   -> TextMissing(request[p])
                        [] Contains(Numbers, p) -> NumberMissing(request[p])
                        [] OTHER                -> request[p] = Null
        order == Texts \o Numbers \o <<"timePlaced">>
        at == {i \in DOMAIN order : missing(order[i])}
    IN  IF at = {} THEN <<>> ELSE <<order[Min(at)]>>
=============================================================================

---------------------------- MODULE AuctionPrice ----------------------------
(***************************************************************************)
(* The price of a Valence auction as the bot computes it                   *)
(* (AuctionProvider.exchange_rate, src/src/contracts/auction.py): a line   *)
(* through the prices of the first and the last block, followed to the     *)
(* height a node answers.  The auction and the height are asked for one    *)
(* after the other, perhaps of two nodes, so the height may be before the  *)
(* auction's first block, and it may be past its last one for as long as   *)
(* nobody has closed the auction.                                          *)
(*                                                                         *)
(* Decimals are exact here: a price is a number of 1 / PriceUnit, and is   *)
(* kept multiplied by the length of the auction.                           *)
(***************************************************************************)
EXTENDS Integers

CONSTANTS
    PriceUnit,              \* prices are multiples of 1 / PriceUnit
    Books,                  \* answers to get_auction
    Heights                 \* answers to query_height; 0 for none

\* The auction contract sells at a price that does not rise, over at least
\* one block, and never for nothing.
ASSUME AuctionAssumption ==
    /\ PriceUnit \in Nat \ {0}
    /\ Heights \subseteq Nat
    /\ Books \subseteq [started : BOOLEAN, start_price : Nat, end_price : Nat,
                        start_block : Nat, end_block : Nat]
    /\ \A book \in Books :
          /\ book.start_price >= book.end_price /\ book.end_price > 0
          /\ book.end_block > book.start_block

Length(book) == book.end_block - book.start_block

\* current_price * Length: the price falls by the same amount each block, past
\* the last one too.
Price(book, height) ==
    book.start_price * Length(book)
        - (book.start_price - book.end_price) * (height - book.start_block)

\* No answer, an auction that is not started, or no height: the rate is 0.
\* (A book that is not started stands for no answer too.)
Quoted(book, height) == book.started /\ height # 0

\* Decimal(1) / current_price raises.
DividesByZero(book, height) == Quoted(book, height) /\ Price(book, height) = 0

\* int() of a quotient rounds towards zero.
Truncated(n, d) ==
    IF d > 0
    THEN IF n >= 0 THEN n \div d ELSE -((-n) \div d)
    ELSE IF n >= 0 THEN -(n \div (-d)) ELSE (-n) \div (-d)

\* int(rate * amount)
Worth(book, height, amount) ==
    IF Quoted(book, height)
    THEN Truncated(amount * PriceUnit * Length(book), Price(book, height))
    ELSE 0

\* The height is past the last block of an auction that is still open.
PastEnd(book, height) == Quoted(book, height) /\ height > book.end_block
=============================================================================

----------------------------- MODULE StockPage -----------------------------
(***************************************************************************)
(* What the stock and news loops read off the page (bot/discord/client.py, *)
(* query_stock_text, query_portfolio_full, _query_stock_news_no_lock, with *)
(* the parsers of bot/stock/parser.py): answers pile up on the page, other *)
(* people write between them, old ones scroll out, and the code has to cut *)
(* out what its own command brought.                                       *)
(*                                                                         *)
(* A message is its kind and the symbols it names. The windows of 4000 and *)
(* 8000 characters hold the whole page, the tail of 500 its last message.  *)
(* Waiting is any number of steps of the page before the text is read.     *)
(***************************************************************************)
EXTENDS Naturals, Integers, SequencesExt

CONSTANTS
  PageSymbols,
  PageView     \* messages the page keeps

ASSUME PageAssumption == PageView \in Nat \ {0}

VARIABLES
  queryPc,
  screen,      \* the page: [kind, of], the oldest first
  owing,       \* answers the game owes: [kind, of]
  positions,   \* the symbols held and sold short, in the game
  since,       \* those held and sold short at any time since the command (history variable)
  before,      \* the local before_text, then main_full
  reading,     \* what the parsers gave: [held, short, whole]; whole: the cut was given up
  newsAsked,   \* the symbol whose news are asked for (a set of at most one)
  newsRead,    \* the symbol whose news were stored for it (a set of at most one)
  trades,      \* trades the model still plays (bound)
  queries      \* commands it still plays (bound)

pageVars == <<queryPc, screen, owing, positions, since, before, reading, newsAsked, newsRead,
              trades, queries>>

NoReading == [held |-> {}, short |-> {}, whole |-> FALSE]

PageInit ==
  /\ queryPc = "idle" /\ screen = <<>> /\ owing = {} /\ before = <<>>
  /\ positions = [held |-> PageSymbols, short |-> PageSymbols] /\ since = positions
  /\ reading = NoReading /\ newsAsked = {} /\ newsRead = {}

-----------------------------------------------------------------------------
(* The page *)

LastOf(s, n) == SubSeq(s, IF Len(s) > n THEN Len(s) - n + 1 ELSE 1, Len(s))
Post(kind, of) == screen' = LastOf(Append(screen, [kind |-> kind, of |-> of]), PageView)

Chat ==
  /\ Post("chat", {})
  /\ UNCHANGED <<queryPc, owing, positions, since, before, reading, newsAsked, newsRead, trades, queries>>

\* A position is closed or opened in the game.
Trade ==
  /\ trades > 0 /\ trades' = trades - 1
  /\ \E s \in PageSymbols, side \in {"held", "short"} :
       positions' = [positions EXCEPT ![side] = IF s \in @ THEN @ \ {s} ELSE @ \cup {s}]
  /\ since' = [side \in {"held", "short"} |-> since[side] \cup positions'[side]]
  /\ UNCHANGED <<queryPc, screen, owing, before, reading, newsAsked, newsRead, queries>>

\* Late or never, to the command or the button, with the positions of that moment.
AnswerStock ==
  /\ \E a \in owing :
       /\ owing' = owing \ {a}
       /\ Post(a.kind, CASE a.kind = "portfolio" -> positions.held
                         [] a.kind = "shorts"    -> positions.short
                         [] OTHER                -> a.of)
  /\ UNCHANGED <<queryPc, positions, since, before, reading, newsAsked, newsRead, trades, queries>>

PageMoves == Chat \/ Trade \/ AnswerStock

-----------------------------------------------------------------------------
(* Telling an answer from what was there *)

\* How often the words of _stock_reply_detected occur, and the length in units of 50 characters.
Words(text)  == FoldSeq(LAMBDA m, n : n + (CASE m.kind \in {"portfolio", "list"} -> 1 + Cardinality(m.of)
                                             [] m.kind = "shorts" -> Cardinality(m.of)
                                             [] OTHER -> 0), 0, text)
Length(text) == FoldSeq(LAMBDA m, n : n + (IF m.kind = "shorts" THEN Cardinality(m.of) ELSE 4), 0, text)

Changed(old, new) ==
  \/ Words(old) # Words(new)
  \/ Length(new) - Length(old) >= 4 \/ Length(old) - Length(new) >= 4

\* Variant: the first place that looks like the anchor.
CutFirst(text, anchor) ==
  LET places == {i \in DOMAIN text : text[i] = Last(anchor)}
  IN IF anchor = <<>> THEN text
     ELSE IF places = {} THEN <<>> ELSE SubSeq(text, Min(places) + 1, Len(text))

\* _slice_after_anchor: what follows the last place that looks like the end of the anchor.
\* An anchor that is gone and one with nothing behind it mean the same to the callers.
SliceAfterAnchor(text, anchor) ==
  LET places == {i \in DOMAIN text : text[i] = Last(anchor)}
  IN IF anchor = <<>> THEN text
     ELSE IF places = {} THEN <<>> ELSE SubSeq(text, Max(places) + 1, Len(text))

\* parse_portfolio and parse_portfolio_shorts: every symbol in any message of that kind.
Named(text, kind) == UNION {text[i].of : i \in {i \in DOMAIN text : text[i].kind = kind}}

-----------------------------------------------------------------------------
(* The commands *)

\* before_text is read and the command sent.
SendQuery(kind, of, label) ==
  /\ queryPc = "idle" /\ queryPc' = label
  /\ queries > 0 /\ queries' = queries - 1
  /\ before' = screen
  /\ since' = positions
  /\ owing' = owing \cup {[kind |-> kind, of |-> of]}
  /\ reading' = NoReading /\ newsRead' = {}
  /\ UNCHANGED <<screen, positions, trades>>

SendList      == SendQuery("list", PageSymbols, "list") /\ newsAsked' = {}
SendPortfolio == SendQuery("portfolio", {}, "main") /\ newsAsked' = {}
SendDetail(s) == SendQuery("detail", {s}, "detail") /\ newsAsked' = {s}

InQuery == UNCHANGED <<positions, since, trades, queries, newsAsked>>
Done == queryPc' = "idle" /\ before' = <<>>

\* No answer, or no button, before the deadline.
GiveUp ==
  /\ queryPc # "idle" /\ Done
  /\ InQuery /\ UNCHANGED <<screen, owing, reading, newsRead>>

\* query_stock_text gives the whole page.
ReadList ==
  /\ queryPc = "list" /\ Changed(before, screen) /\ Done
  /\ InQuery /\ UNCHANGED <<screen, owing, reading, newsRead>>

\* Whatever changed the page is the answer; where nothing is left of it, so is the whole page.
ReadMain ==
  /\ queryPc = "main" /\ Changed(before, screen) /\ queryPc' = "button"
  /\ LET new == SliceAfterAnchor(screen, before)
     IN reading' = [held |-> Named(IF new = <<>> THEN screen ELSE new, "portfolio"),
                    short |-> {}, whole |-> new = <<>>]
  /\ before' = screen
  /\ InQuery /\ UNCHANGED <<screen, owing, newsRead>>

\* The last button with the text, on whichever message it is.
Press(on, gives, label) ==
  /\ queryPc' = label
  /\ \E i \in DOMAIN screen :
       /\ screen[i].kind = on /\ \A j \in i + 1 .. Len(screen) : screen[j].kind # on
       /\ owing' = owing \cup {[kind |-> gives, of |-> IF gives = "news" THEN screen[i].of ELSE {}]}
  /\ InQuery /\ UNCHANGED <<screen, before, reading, newsRead>>

PressShorts == queryPc = "button" /\ Press("portfolio", "shorts", "shorts")

\* The page is read when it has changed, or at the deadline as it is; no new text, no shorts.
ReadShortsPage ==
  /\ queryPc = "shorts" /\ Done
  /\ reading' = [reading EXCEPT !.short = Named(SliceAfterAnchor(screen, before), "shorts")]
  /\ InQuery /\ UNCHANGED <<screen, owing, newsRead>>

\* _wait_for_marker "SYM - ", which the list of all stocks has too, and then the button.
PressNews ==
  /\ queryPc = "detail" /\ newsAsked \subseteq Named(screen, "detail") \cup Named(screen, "list")
  /\ Press("detail", "news", "news")

\* Variant: the last news on the page, of whatever symbol.
LastNews(text) ==
  LET places == {i \in DOMAIN text : text[i].kind = "news"} IN text[Max(places)].of

\* parse_stock_news: the last news on the page under the name of the symbol.
NewsUnder(text) ==
  LET places == {i \in DOMAIN text : text[i].kind = "news" /\ text[i].of = newsAsked}
  IN text[Max(places)].of

ReadNews ==
  /\ queryPc = "news" /\ newsAsked \subseteq Named(screen, "news") /\ Done
  /\ newsRead' = NewsUnder(screen)
  /\ InQuery /\ UNCHANGED <<screen, owing, reading>>

PageNext ==
  \/ PageMoves
  \/ SendList \/ SendPortfolio \/ (\E s \in PageSymbols : SendDetail(s))
  \/ GiveUp \/ ReadList \/ ReadMain \/ PressShorts \/ ReadShortsPage \/ PressNews \/ ReadNews
=============================================================================

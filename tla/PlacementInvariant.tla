-------------------------- MODULE PlacementInvariant --------------------------
(***************************************************************************)
(* What the proofs about OrderPlacement need beside its definitions: its   *)
(* inductive invariants.  The proofs are in SellLifecycleProofs, about an  *)
(* instance of this module.                                                *)
(***************************************************************************)
EXTENDS OrderPlacement

-----------------------------------------------------------------------------
(* The types, and what the worker may be in *)

SignalType == [base : {"none", "active", "expired"}, user : {"none", "traded", "failed", "rejected"}]
RowType    == [sym : Symbols \cup {NoSymbol}, order : Orders \cup {None}, age : 0 .. 3,
               st : {"none", "pending", "failed", "cancelled"}]
BookType   == [sym : Symbols \cup {NoSymbol}, by : {"system", "user"},
               st : {"none", "open", "filled", "rejected", "cancelled", "lapsed"}]
Placing    == {"funds", "accepted", "traded", "written", "verified"}
JobType    == [task : {"none", "buys", "retry", "adjust", "preview"},
               step : {"next", "gone"} \cup Placing,
               todo : SUBSET (Symbols \cup Rows \cup Orders), room : BOOLEAN, blind : BOOLEAN,
               seen : SUBSET Orders, sym : Symbols \cup {NoSymbol}, row : Rows \cup {None},
               order : Orders \cup {None}]

\* A row without a status is none; the others are of a symbol.
RowsWell == \A r \in Rows : IF rows[r].st = "none" THEN rows[r] = NoRow ELSE rows[r].sym \in Symbols

Buying == job.task \in {"buys", "retry"}

\* What the worker does at which time of the day, and with what.
Works ==
    /\ job.task = "none" => job = Ready
    /\ Buying \/ job.task = "adjust" => phase = "pre"
    /\ job.task = "preview" => phase = "closed"
    /\ job.task \in {"buys", "preview"} => job.row = None
    /\ job.step = "funds" => job.task \in {"buys", "retry", "preview"}
    /\ job.step \in Placing \ {"funds"} => Buying /\ job.order \in Orders
    /\ job.step = "verified" => job.task = "retry"
    /\ job.step = "gone" => job.task = "adjust" /\ job.order \in Orders
    /\ job.step \in Placing => job.sym \in Symbols

\* Rows that wait for their retry, and the one that is retried, have failed or were dropped.
Retried(r) == rows[r].st \in {"failed", "cancelled"}
Retries ==
    job.task = "retry" =>
        /\ \A r \in job.todo : r \in Rows /\ Retried(r)
        /\ job.step \in Placing => /\ job.row \in Rows /\ Retried(job.row)
                                   /\ rows[job.row].sym = job.sym /\ job.row \notin job.todo

Sheets   == signal \in [Symbols -> SignalType] /\ rows \in [Rows -> RowType] /\ RowsWell
BookWell ==
    /\ book \in [Orders -> BookType]
    /\ \A o \in Orders : book[o].st = "open" => book[o].sym \in Symbols
Tables == Sheets /\ BookWell

Around ==
    /\ bought \subseteq Symbols /\ owned \subseteq Symbols /\ pos \subseteq Symbols
    /\ phase \in {"pre", "open", "closed"} /\ events \subseteq exposed /\ exposed \in Exposures
    /\ done \in [{"buys", "retry", "adjust", "analysis", "preview"} -> BOOLEAN]

JobWell == job \in JobType /\ Works /\ Retries

Typed == Tables /\ Around /\ JobWell

\* The rows that are added.
NewRow(s, o) == [NoRow EXCEPT !.sym = s, !.st = "pending", !.order = o]
FailedRow(s) == [NewRow(s, None) EXCEPT !.st = "failed"]

-----------------------------------------------------------------------------
(* How old a failed row gets *)

\* Unless the process was away, an old row is done with once the retry has begun, before
\* the market opens: it was cancelled, and nobody has it in hands.
Old(r) == rows[r].age >= 2
Days ==
    /\ phase # "pre" => done["adjust"]
    /\ done["adjust"] => done["retry"]
    /\ job.task = "retry" => done["retry"]
Unrowed ==
    /\ job.step \in {"accepted", "traded"} => \A r \in Rows : rows[r].order # job.order
    /\ job.step = "written" => \A r \in Rows : rows[r].order = job.order => rows[r].st = "pending"
OldRows ==
    \A r \in Rows : Old(r) =>
        /\ rows[r].age = 2 /\ Retried(r)
        /\ done["retry"] => rows[r].st = "cancelled"
        /\ job.task = "retry" => r \notin job.todo /\ r # job.row
Aged == "crash" \notin events => Days /\ Unrowed /\ OldRows

-----------------------------------------------------------------------------
(* Why no symbol has two orders *)

ByUs(o) == book[o].st = "open" /\ book[o].by = "system"
NoOrder(s) == System(s) = {}

\* A row is of its order's symbol, and the row of an order that waits is pending: so an order
\* is either found by its pending row or is one no row has, and then it is adopted.
Linked ==
    \A r \in Rows : rows[r].order # None =>
        /\ rows[r].sym = book[rows[r].order].sym
        /\ ByUs(rows[r].order) => rows[r].st = "pending"

\* The order the worker has in hands is the one it placed, or cancelled.
InHands ==
    /\ job.step \in Placing \ {"funds"} => book[job.order].sym = job.sym
    /\ job.step = "gone" => book[job.order].st # "open"

OneEach == \A o, p \in Orders : ByUs(o) /\ ByUs(p) /\ book[o].sym = book[p].sym => o = p

\* Orders wait until the close.
Lapsed == phase = "closed" => Live = {}

\* What the report of the entries does not show was placed by them, for a symbol they are
\* through with; who is about to place an order has no other one for the symbol.
Careful ==
    /\ job.task = "buys" => /\ \A o \in Orders : ByUs(o) /\ o \notin job.seen => book[o].sym \notin job.todo
                            /\ job.step \in Placing => job.sym \notin job.todo
    /\ job.task = "preview" => job.seen = {}
    /\ job.step = "funds" /\ Buying =>
           /\ NoOrder(job.sym) /\ job.sym \notin pos
           /\ Unexposed({"noholdings"}) => job.sym \notin owned
    /\ Unexposed({"noholdings"}) => ~job.blind

\* No fill is unknown before the market opens; where only the system buys, a symbol whose fill
\* has not been noticed has no order.
Noticed ==
    /\ phase = "pre" =>
           /\ \A r \in Rows : rows[r].st = "pending" /\ rows[r].order # None
                                  => book[rows[r].order].st # "filled"
           /\ \A o \in job.seen : book[o].st # "filled"
           /\ job.order # None => book[job.order].st # "filled"
    /\ Unexposed({"manual"}) =>
           /\ \A o \in Orders : book[o].by = "system"
           /\ \A r \in Rows : rows[r].st = "pending" /\ rows[r].order # None
                                  /\ book[rows[r].order].st = "filled" => NoOrder(rows[r].sym)
           /\ \A s \in pos : NoOrder(s)
           /\ Unexposed({"noholdings"}) => \A s \in owned : NoOrder(s)

Single == Linked /\ InHands /\ OneEach /\ Lapsed /\ Careful /\ Noticed
SingleScene == Unexposed({"noreport", "nocancel"})
SingleInv == SingleScene => Single

-----------------------------------------------------------------------------
(* Why every order has its row, and every traded signal its order *)

\* Nothing is pending in the morning, nor for a symbol that is to be bought, until its row
\* is written.
Quiet ==
    /\ phase = "pre" /\ ~done["buys"] => ~Buying /\ \A s \in Symbols : ~Pending(rows, s)
    /\ job.task = "buys" => \A s \in Symbols \cap job.todo : ~Pending(rows, s)
    /\ job.step \in {"funds", "accepted", "traded"} /\ Buying => ~Pending(rows, job.sym)

Followed ==
    \A o \in Orders : ByUs(o) =>
        \/ \E r \in Rows : rows[r].st = "pending" /\ rows[r].order = o
        \/ job.order = o /\ job.step \in {"accepted", "traded"}

\* A signal is traded from just before its row is written, and no longer than that has an order
\* or a purchase to show for it.
Explained ==
    /\ job.step # "gone" /\ pos \subseteq bought
    /\ \A s \in Symbols : signal[s].base # "none"
    /\ job.task = "preview" => \A s \in Symbols \cap job.todo : signal[s].user # "traded"
    /\ \A s \in Symbols : signal[s].user = "traded" =>
           Pending(rows, s) \/ s \in bought \/ (job.sym = s /\ job.step = "traded")

Account == Quiet /\ Followed /\ (Unexposed({"above"}) => Explained)

-----------------------------------------------------------------------------
(* Why the limit holds *)

Fits(S) == Cardinality(S) <= MaxPositions

\* A row that waits for its retry, or is retried.
Retryable(r) == job.task = "retry" /\ (r \in job.todo \/ (job.step \in Placing /\ r = job.row))

\* A symbol with a failed row, with one that is to be retried, or with a rejected order.
Troubled(s) ==
    \/ \E r \in Rows : rows[r].sym = s /\ (rows[r].st = "failed" \/ Retryable(r))
    \/ \E o \in Orders : book[o].sym = s /\ book[o].st = "rejected"

OneTrouble ==
    /\ \A s, t \in Symbols : Troubled(s) /\ Troubled(t) => s = t
    /\ events \cap Failures = {} => \A s \in Symbols : ~Troubled(s)

\* There is room for what the worker has in hands, and for what it will retry.
Bounded ==
    /\ Fits(InFlight)
    /\ job.step \in Placing /\ Buying => Fits(InFlight \cup {job.sym})
    /\ job.task = "retry" /\ job.room =>
           \A r \in job.todo : Fits(InFlight \cup {rows[r].sym})

OneFailure == \A k, l \in exposed \cap Failures : k = l
Limit      == OneFailure => OneTrouble /\ Bounded

SoundInv == Lossless => Account /\ Limit
=============================================================================

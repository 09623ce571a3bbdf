----------------------------- MODULE PairsProofs -----------------------------
(***************************************************************************)
(* What Pairs promises of the programs of which two talk over one          *)
(* connection, proved from PeerProofs: once with the parameters Pairs      *)
(* gives them where nothing is rough, and once where it is.                *)
(***************************************************************************)
EXTENDS Pairs, TLAPS, SequenceTheorems

Calm == INSTANCE PeerProofs WITH
    Splits <- FALSE, Rounds <- 6, ChatDies <- {"client"},
    MaxX <- 3, MaxY <- 2, ClientX <- 2, ClientY <- 2, Keys <- {"h", "l", "j", "q"}, Presses <- 2,
    Interrupts <- {"client"}, Losses <- FALSE

Rough == INSTANCE PeerProofs WITH
    Dies <- Players, pc <- deadPc, plane <- deadPlane, link <- deadLink, tie <- deadTie,
    Splits <- TRUE, Rounds <- 4, ChatDies <- {"client"},
    MaxX <- 3, MaxY <- 2, ClientX <- 2, ClientY <- 2, Keys <- {"l", "q"}, Presses <- 2,
    Interrupts <- {"client"}, Losses <- TRUE

\* The invariants of the programs, whichever runs.
PairsInv ==
    /\ rough \in BOOLEAN
    /\ Calm!IInv /\ Rough!IInv
    /\ ~rough => Calm!ChatInv /\ Calm!TagInv
    /\ rough => Rough!ChatInv /\ Rough!TagInv

-----------------------------------------------------------------------------
(* The modules as Pairs instantiates them, and as PeerProofs does: the     *)
(* same definitions by two names                                           *)

LEMMA Assumed ==
    /\ Calm!Chat!SimpleChatAssumption /\ Calm!Tag!TagAssumption
    /\ Rough!Chat!SimpleChatAssumption /\ Rough!Tag!TagAssumption
BY DEF Calm!Chat!SimpleChatAssumption, Calm!Chat!Parties, Calm!Tag!TagAssumption, Calm!Tag!Players,
       Rough!Chat!SimpleChatAssumption, Rough!Chat!Parties, Rough!Tag!TagAssumption, Rough!Tag!Players

LEMMA SameInit ==
    /\ Init => Calm!Init
    /\ Dead!Init => Rough!Init
    /\ Chat!Init => Calm!Chat!Init /\ Rough!Chat!Init
    /\ Tag!Init => Calm!Tag!Init /\ Rough!Tag!Init
<1>1. Init => Calm!Init
    BY DEF Init, Players, Calm!Init, Calm!Players
<1>2. Dead!Init => Rough!Init
    BY DEF Dead!Init, Dead!Players, Rough!Init, Rough!Players
<1>3. Chat!Init => Calm!Chat!Init /\ Rough!Chat!Init
    BY DEF Chat!Init, Chat!Parties, Calm!Chat!Init, Calm!Chat!Parties, Rough!Chat!Init, Rough!Chat!Parties
<1>4. Tag!Init => Calm!Tag!Init
    BY DEF Tag!Init, Tag!Start, Tag!Piece, Tag!Players, Tag!Other, Calm!Tag!Init,
           Calm!Tag!Start, Calm!Tag!Piece, Calm!Tag!Players, Calm!Tag!Other
<1>5. Tag!Init => Rough!Tag!Init
    BY DEF Tag!Init, Tag!Start, Tag!Piece, Tag!Players, Tag!Other, Rough!Tag!Init,
           Rough!Tag!Start, Rough!Tag!Piece, Rough!Tag!Players, Rough!Tag!Other
<1> QED BY <1>1, <1>2, <1>3, <1>4, <1>5

LEMMA SameNext ==
    /\ Next <=> Calm!Next
    /\ Dead!Next <=> Rough!Next
    /\ Chat!Next <=> Calm!Chat!Next
    /\ ChatInParts!Next <=> Rough!Chat!Next
    /\ Tag!Next <=> Calm!Tag!Next
    /\ TagInParts!Next <=> Rough!Tag!Next
<1>1. Next <=> Calm!Next
    BY Zenon DEF Next, Quit, PeerTurn, Kill, Move, Close,
           Sent, Marked, Stone, Data, Live, Other,
           Players, Calm!Next, Calm!Quit, Calm!PeerTurn, Calm!Kill, Calm!Move,
           Calm!Close, Calm!Sent, Calm!Marked, Calm!Stone, Calm!Data, Calm!Live,
           Calm!Other, Calm!Players
<1>2. Dead!Next <=> Rough!Next
    BY Zenon DEF Dead!Next, Dead!Quit, Dead!PeerTurn, Dead!Kill, Dead!Move, Dead!Close,
           Dead!Sent, Dead!Marked, Dead!Stone, Dead!Data, Dead!Live, Dead!Other,
           Dead!Players, Rough!Next, Rough!Quit, Rough!PeerTurn, Rough!Kill, Rough!Move,
           Rough!Close, Rough!Sent, Rough!Marked, Rough!Stone, Rough!Data, Rough!Live,
           Rough!Other, Rough!Players
<1>3. Chat!Next <=> Calm!Chat!Next
    BY Zenon DEF Chat!Next, Chat!Read, Chat!Kill, Chat!Type, Chat!End, Chat!Filled,
           Chat!Text, Chat!Quit, Chat!Other, Chat!Parties, Calm!Chat!Next, Calm!Chat!Read,
           Calm!Chat!Kill, Calm!Chat!Type, Calm!Chat!End, Calm!Chat!Filled, Calm!Chat!Text, Calm!Chat!Quit,
           Calm!Chat!Other, Calm!Chat!Parties
<1>4. ChatInParts!Next <=> Rough!Chat!Next
    BY Zenon DEF ChatInParts!Next, ChatInParts!Read, ChatInParts!Kill, ChatInParts!Type, ChatInParts!End, ChatInParts!Filled,
           ChatInParts!Text, ChatInParts!Quit, ChatInParts!Other, ChatInParts!Parties, Rough!Chat!Next, Rough!Chat!Read,
           Rough!Chat!Kill, Rough!Chat!Type, Rough!Chat!End, Rough!Chat!Filled, Rough!Chat!Text, Rough!Chat!Quit,
           Rough!Chat!Other, Rough!Chat!Parties
<1>5. Tag!Next <=> Calm!Tag!Next
    BY Zenon DEF Tag!Next, Tag!Interrupt, Tag!Press, Tag!Readable, Tag!Select, Tag!Update,
           Tag!Written, Tag!Key, Tag!Interpret, Tag!Quits, Tag!Wire, Tag!Over,
           Tag!End, Tag!Piece, Tag!Min, Tag!Other, Tag!Players, Tag!keys,
           Tag!vars, Calm!Tag!Next, Calm!Tag!Interrupt, Calm!Tag!Press, Calm!Tag!Readable, Calm!Tag!Select,
           Calm!Tag!Update, Calm!Tag!Written, Calm!Tag!Key, Calm!Tag!Interpret, Calm!Tag!Quits, Calm!Tag!Wire,
           Calm!Tag!Over, Calm!Tag!End, Calm!Tag!Piece, Calm!Tag!Min, Calm!Tag!Other, Calm!Tag!Players,
           Calm!Tag!keys, Calm!Tag!vars
<1>6. TagInParts!Next <=> Rough!Tag!Next
    BY Zenon DEF TagInParts!Next, TagInParts!Interrupt, TagInParts!Press, TagInParts!Readable, TagInParts!Select, TagInParts!Update,
           TagInParts!Written, TagInParts!Key, TagInParts!Interpret, TagInParts!Quits, TagInParts!Wire, TagInParts!Over,
           TagInParts!End, TagInParts!Piece, TagInParts!Min, TagInParts!Other, TagInParts!Players, TagInParts!keys,
           TagInParts!vars, Rough!Tag!Next, Rough!Tag!Interrupt, Rough!Tag!Press, Rough!Tag!Readable, Rough!Tag!Select,
           Rough!Tag!Update, Rough!Tag!Written, Rough!Tag!Key, Rough!Tag!Interpret, Rough!Tag!Quits, Rough!Tag!Wire,
           Rough!Tag!Over, Rough!Tag!End, Rough!Tag!Piece, Rough!Tag!Min, Rough!Tag!Other, Rough!Tag!Players,
           Rough!Tag!keys, Rough!Tag!vars
<1> QED BY <1>1, <1>2, <1>3, <1>4, <1>5, <1>6

-----------------------------------------------------------------------------
(* The invariant                                                           *)

LEMMA Start == PairsInit => PairsInv
<1> SUFFICES ASSUME PairsInit PROVE PairsInv
    OBVIOUS
<1>0. Init /\ Dead!Init /\ Chat!Init /\ Tag!Init /\ rough \in BOOLEAN
    BY DEF PairsInit
<1>1. Calm!IInv
    BY <1>0, SameInit, SanmokuAssumption, Calm!InitInv DEF Players, Calm!Players
<1>2. Rough!IInv
    BY <1>0, SameInit, SanmokuAssumption, Rough!InitInv DEF Players, Rough!Players
<1>3. Calm!ChatInv /\ Calm!TagInv
    BY <1>0, SameInit, Assumed, SanmokuAssumption, Calm!ChatStart, Calm!TagStart DEF Players, Calm!Players
<1>4. Rough!ChatInv /\ Rough!TagInv
    BY <1>0, SameInit, Assumed, SanmokuAssumption, Rough!ChatStart, Rough!TagStart DEF Players, Rough!Players
<1> QED BY <1>0, <1>1, <1>2, <1>3, <1>4 DEF PairsInv

LEMMA Step == PairsInv /\ [PairsNext]_pairVars => PairsInv'
<1> SUFFICES ASSUME PairsInv, [PairsNext]_pairVars PROVE PairsInv'
    OBVIOUS
<1>1. rough' = rough /\ rough \in BOOLEAN
    BY DEF PairsInv, PairsNext, pairVars
<1>2. [Next]_vars /\ [Dead!Next]_deadVars
    BY DEF PairsNext, pairVars
<1>3. /\ ~rough => [Chat!Next]_chatVars /\ [Tag!Next]_tagVars
      /\ rough => [ChatInParts!Next]_chatVars /\ [TagInParts!Next]_tagVars
    BY DEF PairsNext, pairVars
<1>4. [Calm!Next]_vars /\ [Rough!Next]_deadVars
    BY <1>2, SameNext
<1>5. /\ ~rough => [Calm!Chat!Next]_chatVars /\ [Calm!Tag!Next]_tagVars
      /\ rough => [Rough!Chat!Next]_chatVars /\ [Rough!Tag!Next]_tagVars
    BY <1>3, SameNext
<1>6. Calm!IInv'
    <2>1. Calm!IInv /\ [Calm!Next]_(Calm!vars)
        BY <1>4 DEF PairsInv, vars, Calm!vars
    <2> QED BY <2>1, SanmokuAssumption, Calm!NextInv DEF Players, Calm!Players
<1>7. Rough!IInv'
    <2>1. Rough!IInv /\ [Rough!Next]_(Rough!vars)
        BY <1>4 DEF PairsInv, deadVars, Rough!vars
    <2> QED BY <2>1, SanmokuAssumption, Rough!NextInv DEF Players, Rough!Players
<1>8. ASSUME ~rough PROVE Calm!ChatInv' /\ Calm!TagInv'
    <2>1. Calm!ChatInv /\ [Calm!Chat!Next]_(Calm!chatVars)
        BY <1>5, <1>8 DEF PairsInv, chatVars, Calm!chatVars
    <2>2. Calm!TagInv /\ [Calm!Tag!Next]_(Calm!tagVars)
        BY <1>5, <1>8 DEF PairsInv, tagVars, Calm!tagVars
    <2>3. Calm!ChatInv'
        BY <2>1, Assumed, SanmokuAssumption, Calm!ChatStep DEF Players, Calm!Players
    <2>4. Calm!TagInv'
        BY <2>2, Assumed, SanmokuAssumption, Calm!TagStep DEF Players, Calm!Players
    <2> QED BY <2>3, <2>4
<1>9. ASSUME rough PROVE Rough!ChatInv' /\ Rough!TagInv'
    <2>1. Rough!ChatInv /\ [Rough!Chat!Next]_(Rough!chatVars)
        BY <1>5, <1>9 DEF PairsInv, chatVars, Rough!chatVars
    <2>2. Rough!TagInv /\ [Rough!Tag!Next]_(Rough!tagVars)
        BY <1>5, <1>9 DEF PairsInv, tagVars, Rough!tagVars
    <2>3. Rough!ChatInv'
        BY <2>1, Assumed, SanmokuAssumption, Rough!ChatStep DEF Players, Rough!Players
    <2>4. Rough!TagInv'
        BY <2>2, Assumed, SanmokuAssumption, Rough!TagStep DEF Players, Rough!Players
    <2> QED BY <2>3, <2>4
<1> QED BY <1>1, <1>6, <1>7, <1>8, <1>9 DEF PairsInv

-----------------------------------------------------------------------------
(* What is promised                                                        *)

LEMMA SanmokuKeeps ==
    ASSUME PairsInv
    PROVE  /\ TypeOK /\ Agree /\ Waits /\ OneMove
           /\ Dead!TypeOK /\ Dead!Waits /\ Dead!OneMove
<1>1. Calm!IInv /\ Rough!IInv
    BY DEF PairsInv
<1>2. TypeOK /\ Dead!TypeOK
    <2>1. Calm!TypeOK /\ Rough!TypeOK
        BY <1>1 DEF Calm!IInv, Rough!IInv
    <2>2. Calm!TypeOK => TypeOK
        BY Zenon DEF TypeOK, Plane, Live, Players, Calm!TypeOK,
           Calm!Plane, Calm!Live, Calm!Players
    <2>3. Rough!TypeOK => Dead!TypeOK
        BY Zenon DEF Dead!TypeOK, Dead!Plane, Dead!Live, Dead!Players, Rough!TypeOK,
           Rough!Plane, Rough!Live, Rough!Players
    <2> QED BY <2>1, <2>2, <2>3
<1>3. Agree
    <2>1. Calm!Agree
        BY <1>1, SanmokuAssumption, Calm!Agrees DEF Players, Calm!Players
    <2>2. Calm!Agree => Agree
        BY Zenon DEF Agree, Caught, Marked, Stone, Other,
           Players, Calm!Agree, Calm!Caught, Calm!Marked, Calm!Stone,
           Calm!Other, Calm!Players
    <2> QED BY <2>1, <2>2
<1>4. Waits /\ OneMove
    <2>1. Calm!Waits /\ Calm!OneMove
        BY <1>1, SanmokuAssumption, Calm!NeverWait, Calm!NeverBoth DEF Players, Calm!Players
    <2>2. (Calm!Waits => Waits) /\ (Calm!OneMove => OneMove)
        BY Zenon DEF Waits, OneMove, Other, Players, Calm!Waits,
           Calm!OneMove, Calm!Other, Calm!Players
    <2> QED BY <2>1, <2>2
<1>5. Dead!Waits /\ Dead!OneMove
    <2>1. Rough!Waits /\ Rough!OneMove
        BY <1>1, SanmokuAssumption, Rough!NeverWait, Rough!NeverBoth DEF Players, Rough!Players
    <2>2. (Rough!Waits => Dead!Waits) /\ (Rough!OneMove => Dead!OneMove)
        BY Zenon DEF Dead!Waits, Dead!OneMove, Dead!Other, Dead!Players, Rough!Waits,
           Rough!OneMove, Rough!Other, Rough!Players
    <2> QED BY <2>1, <2>2
<1> QED BY <1>2, <1>3, <1>4, <1>5

LEMMA ChatKeeps ==
    ASSUME PairsInv
    PROVE  /\ Chat!TypeOK /\ ChatInParts!Waits /\ Chat!LastOut
           /\ ~rough => Chat!Turns
<1>1. CASE ~rough
    <2>1. Calm!Chat!TypeOK /\ Calm!Chat!Waits /\ Calm!Chat!LastOut /\ Calm!Chat!Turns
        BY <1>1, Assumed, SanmokuAssumption, Calm!ChatPromises DEF PairsInv, Players, Calm!Players
    <2>2. Calm!Chat!TypeOK => Chat!TypeOK
        BY Zenon DEF Chat!TypeOK, Chat!Parties, Calm!Chat!TypeOK, Calm!Chat!Parties
    <2>3. Calm!Chat!Waits => ChatInParts!Waits
        BY Zenon DEF ChatInParts!Waits, ChatInParts!Parties, ChatInParts!Other, Calm!Chat!Waits, Calm!Chat!Parties,
           Calm!Chat!Other
    <2>4. (Calm!Chat!LastOut => Chat!LastOut) /\ (Calm!Chat!Turns => Chat!Turns)
        BY Zenon DEF Chat!LastOut, Chat!Turns, Calm!Chat!LastOut, Calm!Chat!Turns
    <2> QED BY <2>1, <2>2, <2>3, <2>4
<1>2. CASE rough
    <2>1. Rough!Chat!TypeOK /\ Rough!Chat!Waits /\ Rough!Chat!LastOut
        BY <1>2, Assumed, SanmokuAssumption, Rough!ChatPromises DEF PairsInv, Players, Rough!Players
    <2>2. Rough!Chat!TypeOK => Chat!TypeOK
        <3>1. \A p \in {"server", "client"} : said[p] \in 0 .. 4 => said[p] \in 0 .. 6
            OBVIOUS
        <3> QED BY <3>1 DEF Chat!TypeOK, Chat!Parties, Rough!Chat!TypeOK, Rough!Chat!Parties
    <2>3. Rough!Chat!Waits => ChatInParts!Waits
        BY Zenon DEF ChatInParts!Waits, ChatInParts!Parties, ChatInParts!Other, Rough!Chat!Waits, Rough!Chat!Parties,
           Rough!Chat!Other
    <2>4. Rough!Chat!LastOut => Chat!LastOut
        BY Zenon DEF Chat!LastOut, Rough!Chat!LastOut
    <2> QED BY <1>2, <2>1, <2>2, <2>3, <2>4
<1> QED BY <1>1, <1>2

LEMMA TagKeeps ==
    ASSUME PairsInv
    PROVE  /\ Tag!TypeOK /\ TagInParts!NotSentAway
           /\ ~rough => Tag!Mirror
<1>1. CASE ~rough
    <2>1. Calm!Tag!TypeOK /\ Calm!Tag!NotSentAway /\ Calm!Tag!Mirror
        BY <1>1, SanmokuAssumption, Calm!TagPromises DEF PairsInv, Players, Calm!Players
    <2>2. Calm!Tag!TypeOK => Tag!TypeOK
        BY Zenon DEF Tag!TypeOK, Tag!Players, Tag!Position, Tag!Pieces, Tag!Nums,
           Calm!Tag!TypeOK, Calm!Tag!Players, Calm!Tag!Position, Calm!Tag!Pieces, Calm!Tag!Nums
    <2>3. Calm!Tag!NotSentAway => TagInParts!NotSentAway
        BY Zenon DEF TagInParts!NotSentAway, TagInParts!Players, TagInParts!Other, Calm!Tag!NotSentAway, Calm!Tag!Players,
           Calm!Tag!Other
    <2>4. Calm!Tag!Mirror => Tag!Mirror
        BY Zenon DEF Tag!Mirror, Tag!Reports, Tag!Near, Tag!Last, Tag!Cardinality,
           Tag!Players, Tag!Other, Calm!Tag!Mirror, Calm!Tag!Reports, Calm!Tag!Near,
           Calm!Tag!Last, Calm!Tag!Cardinality, Calm!Tag!Players, Calm!Tag!Other
    <2> QED BY <2>1, <2>2, <2>3, <2>4
<1>2. CASE rough
    <2>1. Rough!Tag!TypeOK /\ Rough!Tag!NotSentAway
        BY <1>2, SanmokuAssumption, Rough!TagPromises DEF PairsInv, Players, Rough!Players
    <2>2. Rough!Tag!TypeOK => Tag!TypeOK
        <3>1. \A s \in Seq({"l", "q"}) : s \in Seq({"h", "l", "j", "q"})
            <4>1. {"l", "q"} \subseteq {"h", "l", "j", "q"}
                OBVIOUS
            <4> QED BY <4>1, SeqMonotonic
        <3>2. ASSUME NEW A, NEW B, NEW S, \A x \in A : x \in B, NEW f \in [S -> A]
              PROVE  f \in [S -> B]
            BY <3>2
        <3>3. Rough!Tag!TypeOK =>
                 /\ typed \in [Tag!Players -> Seq({"h", "l", "j", "q"})]
                 /\ ahead \in [Tag!Players -> Seq({"h", "l", "j", "q"})]
            BY <3>1, <3>2, Zenon DEF Rough!Tag!TypeOK, Rough!Tag!Players, Tag!Players
        <3> QED BY <3>3, Zenon DEF Tag!TypeOK, Tag!Players, Tag!Position, Tag!Pieces, Tag!Nums,
           Rough!Tag!TypeOK, Rough!Tag!Players, Rough!Tag!Position, Rough!Tag!Pieces, Rough!Tag!Nums
    <2>3. Rough!Tag!NotSentAway => TagInParts!NotSentAway
        BY Zenon DEF TagInParts!NotSentAway, TagInParts!Players, TagInParts!Other, Rough!Tag!NotSentAway, Rough!Tag!Players,
           Rough!Tag!Other
    <2> QED BY <1>2, <2>1, <2>2, <2>3
<1> QED BY <1>1, <1>2

THEOREM Kept == PairsSpec => []PairsInv
BY Start, Step, PTL DEF PairsSpec

\* Where nothing is rough the two programs of every pair see the same, up to what is
\* under way.
THEOREM SameViews == PairsSpec => []SameView
<1>1. PairsInv => SameView
    BY SanmokuKeeps, ChatKeeps, TagKeeps DEF SameView
<1> QED BY <1>1, Kept, PTL

\* Neither program of a pair waits for the other while that one waits, whoever is killed
\* and whatever a read returns.
THEOREM NoneWaits == PairsSpec => []NeitherWaits
<1>1. PairsInv => NeitherWaits
    BY SanmokuKeeps, ChatKeeps DEF NeitherWaits
<1> QED BY <1>1, Kept, PTL

\* Nobody is sent away but by one who quits, even when messages come in pieces.
THEOREM NoneSentAway == PairsSpec => []NobodySentAway
<1>1. PairsInv => NobodySentAway
    BY ChatKeeps, TagKeeps DEF NobodySentAway
<1> QED BY <1>1, Kept, PTL

\* Without kills the two programs of sanmoku keep one board between them.
THEOREM OneBoard == PairsSpec => ImplementsBoard
<1>1. PairsInit => Calm!Init
    BY SameInit DEF PairsInit
<1>2. [PairsNext]_pairVars => [Calm!Next]_(Calm!vars)
    BY SameNext DEF PairsNext, pairVars, vars, Calm!vars
<1>3. PairsSpec => Calm!Safety
    BY <1>1, <1>2, PTL DEF PairsSpec, Calm!Safety
<1>4. Calm!Safety => Calm!ImplementsBoard
    BY PairsBounds, SanmokuAssumption, Calm!Refinement DEF Players, Calm!Players
<1>5. Calm!Goban!Init => Goban!Init
    BY Zenon DEF Goban!Init, Calm!Goban!Init, Front, Players, Live, Other,
       Calm!Front, Calm!Players, Calm!Live, Calm!Other
<1>6. Calm!ImplementsBoard => ImplementsBoard
    BY <1>5, PTL DEF ImplementsBoard, Calm!ImplementsBoard, Goban!Spec, Calm!Goban!Spec,
       Goban!Next, Goban!Put, Goban!Quit, Goban!Stone, Calm!Goban!Next, Calm!Goban!Put, Calm!Goban!Quit, Calm!Goban!Stone,
       Front, Players, Live, Other, Calm!Front, Calm!Players, Calm!Live, Calm!Other
<1> QED BY <1>3, <1>4, <1>6
=============================================================================

---------------------------- MODULE PairListing ----------------------------
(***************************************************************************)
(* The Pairs query of the factory, and a client that reads the registry    *)
(* page by page while other accounts go on creating pairs.                 *)
(***************************************************************************)
EXTENDS Factory

CONSTANTS
    DEFAULT_LIMIT, MAX_LIMIT,       \* 10 and 30
    Limits                          \* the limits clients pass, NoLimit among them

NoLimit == -1

(* Names are printable: no byte of a denom or an address is 0 or 1.        *)
ASSUME ListingAssumption ==
    /\ DEFAULT_LIMIT \in Nat \ {0}
    /\ MAX_LIMIT \in Nat \ {0}
    /\ Limits \subseteq (Nat \ {0}) \cup {NoLimit}
    /\ \A a \in AssetInfos : \A i \in 1 .. Len(AsBytes[a]) : AsBytes[a][i] > 1

VARIABLES
    cursor,         \* start_after of the next query, <<>> for none
    known,          \* the keys that were registered when the listing began
    listed,         \* the keys received so far
    finished        \* the last page was empty

listingVars == <<cursor, known, listed, finished>>

-----------------------------------------------------------------------------
(* calc_range_start: the key of the last pair seen, and one byte more.     *)
RangeStart(infos) == PairKey(infos) \o <<1>>

(* read_pairs: the registered keys after start_after, least first, as many *)
(* as the limit allows.                                                    *)
ReadPairsFrom(start_after, limit) ==            \* slip: the cursor is not left out
    LET most == IF limit = NoLimit THEN DEFAULT_LIMIT ELSE limit
        after == {key \in DOMAIN pairs :
                     start_after = <<>> \/ ~Precedes(key, PairKey(start_after))}
    IN  {key \in after : Cardinality({k \in after : Precedes(k, key)}) < most}

ReadPairsByNumber(start_after, limit) ==        \* slip: a page is taken in order of creation
    LET most == IF limit = NoLimit THEN DEFAULT_LIMIT ELSE limit
        after == {key \in DOMAIN pairs :
                     start_after = <<>> \/ Precedes(RangeStart(start_after), key)}
    IN  {key \in after : Cardinality({k \in after : pairs[k] < pairs[key]}) < most}

ReadPairs(start_after, limit) ==
    LET asked == IF limit = NoLimit THEN DEFAULT_LIMIT ELSE limit
        most == IF asked < MAX_LIMIT THEN asked ELSE MAX_LIMIT
        after == {key \in DOMAIN pairs :
                     start_after = <<>> \/ Precedes(RangeStart(start_after), key)}
    IN  {key \in after : Cardinality({k \in after : Precedes(k, key)}) < most}

Begun == listed # {} \/ finished

ListingInit ==
    /\ FactoryInit
    /\ cursor = <<>>
    /\ known = {}
    /\ listed = {}
    /\ finished = FALSE

(* The client asks for the pairs after the last one of the previous page.  *)
ReadPage(limit) ==
    LET page == ReadPairs(cursor, limit)
    IN  /\ ~finished
        /\ known' = IF Begun THEN known ELSE DOMAIN pairs
        /\ listed' = listed \cup page
        /\ finished' = (page = {})
        /\ cursor' = IF page = {} THEN cursor
                     ELSE LET last == CHOOSE key \in page :
                                         \A k \in page : k = key \/ Precedes(k, key)
                          IN  contracts[pairs[last]].asset_infos
        /\ UNCHANGED factoryVars

ListingNext ==
    \/ FactoryNext /\ UNCHANGED listingVars
    \/ \E limit \in Limits : ReadPage(limit)

ListingSpec == ListingInit /\ [][ListingNext]_<<factoryVars, listingVars>>

(* The client goes on asking; the others need not do anything.             *)
ListingFairSpec ==
    ListingSpec /\ WF_<<factoryVars, listingVars>>(\E limit \in Limits : ReadPage(limit))

-----------------------------------------------------------------------------
(* A client that reads to the first empty page has seen every pair that    *)
(* was registered when it began, whatever was created between the pages    *)
(* (before or behind its cursor) and whatever the limits it passed.        *)
ListingComplete == finished => known \subseteq listed

(* It is shown no pair twice.                                              *)
ListingWithoutRepeats ==
    [][\A limit \in Limits : ReadPage(limit) => ReadPairs(cursor, limit) \cap listed = {}]_listingVars

(* The listing ends: the key of a pair that was read does not come back    *)
(* behind its own cursor, so a client that goes on reaches an empty page,  *)
(* as long as no more than MaxContracts pairs appear ahead of it.          *)
ListingEnds == <>finished
=============================================================================

----------------------------- MODULE MCServices -----------------------------
(***************************************************************************)
(* The components that share no state, in one run: `focus`, chosen at the  *)
(* start, is the one that moves. What the others can do is what they do    *)
(* alone, so their interleavings would show nothing more.                  *)
(***************************************************************************)
EXTENDS JobLease, RateLimit, RefreshTokens, Accounts, PasswordResets, ContentView,
        FeatureImages, ShareLinks, DraftShares, ScenarioFile, ListPages

VARIABLE focus

Components == {"lease", "limiter", "tokens", "accounts", "resets", "content",
               "images", "sharing", "drafts", "files", "lists"}

allVars == <<focus, leaseVars, rateVars, tokenVars, accountVars, resetVars, viewVars,
             imageVars, shareVars, draftVars, fileVars, pageVars>>

\* A component that rests starts from one of its initial states.
Init ==
    /\ focus \in Components
    /\ LeaseInit
    /\ RateInit
    /\ TokenInit
    /\ AccountInit
    /\ ResetInit
    /\ ViewInit
    /\ ImageInit
    /\ ShareInit
    /\ DraftInit
    /\ FileInit
    /\ PageInit
    /\ focus # "limiter" => production
    /\ focus # "accounts" => user = NoUser
    /\ focus # "resets" => elsewhere = {}
    /\ focus # "lists" => list = "mine"
    /\ focus # "files" => file.nodes = <<>>

Next ==
    \/ focus = "lease" /\ LeaseNext
       /\ UNCHANGED <<focus, rateVars, tokenVars, accountVars, resetVars, viewVars,
                      imageVars, shareVars, draftVars, fileVars, pageVars>>
    \/ focus = "limiter" /\ RateNext
       /\ UNCHANGED <<focus, leaseVars, tokenVars, accountVars, resetVars, viewVars,
                      imageVars, shareVars, draftVars, fileVars, pageVars>>
    \/ focus = "tokens" /\ TokenNext
       /\ UNCHANGED <<focus, leaseVars, rateVars, accountVars, resetVars, viewVars,
                      imageVars, shareVars, draftVars, fileVars, pageVars>>
    \/ focus = "accounts" /\ AccountNext
       /\ UNCHANGED <<focus, leaseVars, rateVars, tokenVars, resetVars, viewVars,
                      imageVars, shareVars, draftVars, fileVars, pageVars>>
    \/ focus = "resets" /\ ResetNext
       /\ UNCHANGED <<focus, leaseVars, rateVars, tokenVars, accountVars, viewVars,
                      imageVars, shareVars, draftVars, fileVars, pageVars>>
    \/ focus = "content" /\ ViewNext
       /\ UNCHANGED <<focus, leaseVars, rateVars, tokenVars, accountVars, resetVars,
                      imageVars, shareVars, draftVars, fileVars, pageVars>>
    \/ focus = "images" /\ ImageNext
       /\ UNCHANGED <<focus, leaseVars, rateVars, tokenVars, accountVars, resetVars,
                      viewVars, shareVars, draftVars, fileVars, pageVars>>
    \/ focus = "sharing" /\ ShareNext
       /\ UNCHANGED <<focus, leaseVars, rateVars, tokenVars, accountVars, resetVars,
                      viewVars, imageVars, draftVars, fileVars, pageVars>>
    \/ focus = "drafts" /\ DraftNext
       /\ UNCHANGED <<focus, leaseVars, rateVars, tokenVars, accountVars, resetVars,
                      viewVars, imageVars, shareVars, fileVars, pageVars>>
    \/ focus = "files" /\ FileNext
       /\ UNCHANGED <<focus, leaseVars, rateVars, tokenVars, accountVars, resetVars,
                      viewVars, imageVars, shareVars, draftVars, pageVars>>
    \/ focus = "lists" /\ PageNext
       /\ UNCHANGED <<focus, leaseVars, rateVars, tokenVars, accountVars, resetVars,
                      viewVars, imageVars, shareVars, draftVars, fileVars>>

\* LeaseFairness and RateFairness while their component has the focus.
FairServices ==
    /\ Init /\ [][Next]_allVars
    /\ \A r \in Replica :
          /\ WF_allVars(focus = "lease" /\ Acquire(r) /\ Next)
          /\ WF_allVars(focus = "lease" /\ RunStep(r) /\ Next)
    /\ WF_allVars(focus = "lease" /\ LeaseTick /\ Next)
    /\ \A q \in Slot : WF_allVars(focus = "limiter" /\ Serve(q) /\ Next)
    /\ WF_allVars(focus = "limiter" /\ RateTick /\ Next)

-----------------------------------------------------------------------------
(* Constants. *)

\* One image is on S3, where nothing is deleted, one in the local directory, whose URL is
\* also known under an older address of the API.
S3Image == CHOOSE i \in Image : TRUE
MCUrl == (Image \X {"answered"}) \cup ((Image \ {S3Image}) \X {"moved"})
MCShows == [u \in MCUrl |-> u[1]]
MCNames == [u \in MCUrl |-> IF u[1] = S3Image THEN NoImage ELSE u[1]]

MCItem == 1..4
MCFirst == <<1, 2, 3>>
MCAsked == {-1, 0, 1, 9}

\* What the client of a scenario file edits.

\* tx: the first of TxFormats; lists: Labels, TxFormats and Params are arrays or absent.
Block(type, name, poll, tx) ==
    [Type |-> type, Name |-> name, PollIntervalMs |-> poll, tx |-> tx, lists |-> TRUE]
BlockNode(id, no) == [id |-> id, kind |-> "block", blockNo |-> no, op |-> "", value |-> ""]
Condition(op, value) ==
    [id |-> "c", kind |-> "condition", blockNo |-> 0, op |-> op, value |-> value]
Edge(source, target, handle) == [source |-> source, target |-> target, sourceHandle |-> handle]

MCBlocks ==
    {Block("button", "b", p, "AT") : p \in {Num(400), Num(500), Num(2000), Str("soon")}}
    \cup {Block("chart", "b", Num(2000), ""), Block("toogle", "b", Null, "AT"),
          Block("lamp", "b", Null, ""), Block("text", "", Null, ""),
          [Block("slider", "b", Null, "") EXCEPT !.lists = FALSE]}

MCNodes ==
    {BlockNode("a", no) : no \in {NaN, -10, 5, 10}}
    \cup {BlockNode("", 0), Condition("like", ""), Condition("contains", ""),
          Condition("contains", "ok"), [Condition("empty", "") EXCEPT !.kind = "loop"]}

MCEdges ==
    {Edge("c", "a", "true"), Edge("c", "z", "true"), Edge("c", "b", "false"),
     Edge("a", "b", "else"), Edge("z", "a", "next")}

MCSettings ==
    [Name |-> {Null, Str(""), Num(70), Str("overlong")},
     Description |-> {Num(10), Str("about"), Str("overlong")},
     Guide |-> {Str("guide"), Str("overlong"), Num(10)},
     FeatureImage |-> {Str("https"), Str("ftp"), Num(10)},
     Baudrate |-> {Null, Num(96000), Numeral(96000), Num(-10), Num(15), Num(1000010), Str("fast")},
     Parity |-> {Null, Str("even"), Str("three"), Num(10)},
     StopBits |-> {Null, Num(10), Numeral(20), Num(15), Num(30)},
     DataBits |-> {Null, Num(70), Numeral(80), Num(90)},
     FlowControl |-> {Str("hardware"), Str("xonxoff")},
     NewLine |-> {Str("crlf"), Str("lfcr")},
     Banner1 |-> {Str("one"), Str("overlong")},
     Banner2 |-> {Str("two"), Value("object", NaN, "[object object]")}]

Banners(type, items, fits) == [type |-> type, items |-> items, fits |-> fits]

MCBannerLists ==
    {Banners("object", <<>>, TRUE), Banners("array", <<Str("one")>>, FALSE)}
    \cup {Banners("array", s, TRUE) :
              s \in {<<>>, <<Str("one")>>, <<Str("one"), Num(20)>>, <<Null, Str("two")>>,
                    <<Str("overlong")>>, <<Str("one"), Value("array", NaN, "two")>>,
                    <<Str("one"), Str("two"), Str("three")>>}}

MCFullFile ==
    [n \in SettingNames \cup {"Banners", "form", "Content", "nodes", "edges"} |->
        CASE n = "Name" -> Str("name")
          [] n = "Banners" -> Banners("null", <<>>, TRUE)
          [] n = "form" -> "array"
          [] n = "Content" -> <<Block("button", "b", Null, "AT")>>
          [] n = "nodes" -> <<BlockNode("a", 0), Condition("empty", ""), BlockNode("b", 0)>>
          [] n = "edges" ->
                <<Edge("a", "c", "next"), Edge("c", "a", "true"), Edge("c", "b", "false")>>
          [] OTHER -> Null]

\* The other file is that of an empty form.
MCFirstFiles ==
    {MCFullFile, [n \in DOMAIN MCFullFile |->
                     CASE n \in SettingNames -> Null
                       [] n \in {"Content", "nodes", "edges"} -> <<>>
                       [] OTHER -> MCFullFile[n]]}

-----------------------------------------------------------------------------
\* The states of the component that moves are of the types that its module declares.
ServicesTypeOK ==
    /\ focus = "lease" => LeaseTypeOK
    /\ focus = "limiter" => RateTypeOK
    /\ focus = "tokens" => TokenTypeOK
    /\ focus = "accounts" => AccountTypeOK
    /\ focus = "resets" => ResetTypeOK
    /\ focus = "content" => ViewTypeOK
    /\ focus = "images" => ImageTypeOK
    /\ focus = "sharing" => ShareTypeOK
    /\ focus = "drafts" => DraftTypeOK
    /\ focus = "files" => FileTypeOK
    /\ focus = "lists" => PageTypeOK

\* JobComesRound, for the behaviours in which the timers run.
LeaseJobComesRound == focus = "lease" => JobComesRound
=============================================================================

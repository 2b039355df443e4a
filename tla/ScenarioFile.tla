---------------------------- MODULE ScenarioFile ----------------------------
(***************************************************************************)
(* A scenario as a file: what the file check says of it                    *)
(* (scenarioFileValidator.js, scenarioFlowValidator.js), what a save makes *)
(* of it (scenarioValidation.js, scenarioCrud.js), and what an export      *)
(* gives back (scenarioPresenter.js). The client edits it step by step,    *)
(* has it checked, saves it, exports it and goes on from there.            *)
(***************************************************************************)
EXTENDS Integers, Sequences, FiniteSets

CONSTANTS
    Blocks,         \* values a client gives an element of Content
    Nodes,          \* ... a node of Flow
    Edges,          \* ... an edge of Flow
    Settings,       \* ... each setting: a function from its name to a set of values
    BannerLists,    \* ... Banners
    FirstFiles,     \* the files it starts from
    MaxInteger,     \* the largest number an INTEGER column takes, in tenths
    MaxEdits        \* bound: edits

VARIABLES
    file,           \* what the client holds
    fileRow,        \* the columns a save stored
    edits

fileVars == <<file, fileRow, edits>>

\* A JSON value as the code looks at it: typeof, what Number() makes of it, in tenths,
\* and what String() makes of it, in lower case.
NaN == -10000
Value(type, number, word) == [type |-> type, number |-> number, word |-> word]
Null == Value("null", 0, "")
Num(n) == Value("number", n, "0")
Str(word) == Value("string", NaN, word)
Numeral(n) == Value("string", n, "0")

Present(v) == v.type # "null"
Text(v) == v.type = "string" /\ v.word # ""

NoFileRow == [saved |-> FALSE]

SettingNames == {"Name", "Description", "Guide", "FeatureImage", "Baudrate", "Parity",
                 "StopBits", "DataBits", "FlowControl", "NewLine", "Banner1", "Banner2"}

FileNames == SettingNames \cup {"Banners", "form", "Content", "nodes", "edges"}

\* An element of Content, with tx, the first of TxFormats, and lists: Labels, TxFormats and
\* Params are arrays or absent. A node of Flow.
BlockValue ==
    [Type : STRING, Name : STRING, tx : STRING, lists : BOOLEAN,
     PollIntervalMs : [type : STRING, number : Int, word : STRING]]
NodeValue == [id : STRING, kind : STRING, blockNo : Int, op : STRING, value : STRING]

\* A setting, and Banners, whose JSON text fits its column or not. There is one null.
JsonTypes == {"null", "boolean", "number", "string", "object", "array"}
JsonValue == {v \in [type : JsonTypes, number : Int, word : STRING] : v.type = "null" => v = Null}
BannersValue == [type : JsonTypes, items : Seq(JsonValue), fits : BOOLEAN]

ASSUME FileAssumption ==
    /\ Blocks \subseteq BlockValue /\ Nodes \subseteq NodeValue
    /\ \A n \in SettingNames : Settings[n] \subseteq JsonValue
    /\ BannerLists \subseteq BannersValue
    /\ \A f \in FirstFiles :
          /\ DOMAIN f = FileNames
          /\ \A n \in SettingNames : f[n] \in JsonValue
          /\ f.Banners \in BannersValue
          /\ f.Content \in Seq(BlockValue) /\ f.nodes \in Seq(NodeValue)
    /\ {"", "0", "none"} \subseteq STRING
    /\ {MaxInteger, MaxEdits} \subseteq Nat

FileTypeOK ==
    /\ DOMAIN file = FileNames
    /\ \A n \in SettingNames : file[n] \in JsonValue
    /\ file.Banners \in BannersValue
    /\ file.Content \in Seq(BlockValue) /\ file.nodes \in Seq(NodeValue)
    /\ fileRow.saved =>
          fileRow \in [saved : {TRUE}, set : [SettingNames -> JsonValue],
                       banners : Seq(JsonValue), content : Seq(BlockValue)]
    /\ edits \in 0..MaxEdits

FileInit == file \in FirstFiles /\ fileRow = NoFileRow /\ edits = 0

-----------------------------------------------------------------------------
(* validateScenarioFlow.                                                   *)

NodeIds == {file.nodes[i].id : i \in {j \in DOMAIN file.nodes : file.nodes[j].id # ""}}

\* Slip: a position one past the end counts as known.
KnownBlockOrNext(no) ==
    \/ \E i \in DOMAIN file.Content : no = 10 * (i - 1)
    \/ no <= 10 * Len(file.Content)

\* blockNo in tenths; a position of Content, or below its length all the same.
KnownBlock(no) ==
    \/ \E i \in DOMAIN file.Content : no = 10 * (i - 1)
    \/ no < 10 * Len(file.Content)

Branches(id, handle) == {i \in DOMAIN file.edges :
                            file.edges[i].source = id /\ file.edges[i].sourceHandle = handle}

NodeErrs(n) ==
    \/ n.id = ""
    \/ n.kind \notin {"block", "condition"}
    \/ n.blockNo = NaN
    \/ n.kind = "condition" /\ n.op \notin {"contains", "matches", "empty", "not_empty"}

NodeWarns(n) ==
    \/ n.kind = "block" /\ n.blockNo # NaN /\ ~KnownBlock(n.blockNo)
    \/ /\ n.kind = "condition"
       /\ \/ n.op \in {"contains", "matches"} /\ n.value = ""
          \/ \E handle \in {"true", "false"} : Branches(n.id, handle) = {}

EdgeErrs(e) ==
    \/ ~({e.source, e.target} \subseteq NodeIds)
    \/ e.sourceHandle \notin {"next", "true", "false"}

-----------------------------------------------------------------------------
(* validateContentArray and validatePollConfiguration.                     *)

PollMinIntervalMs == 50
MaxAggregatePollHz == 10

Aliases == {"toogle", "toogle2"}
ContentTypes == {"text", "dropdown", "para", "button", "button2", "5directions", "slider",
                 "slider2", "toggle", "toggle2", "var", "knob", "colorpicker", "numberinput",
                 "joystick", "matrix", "gauge", "progress", "chart"}

BlockErrs(b) == b.Type \notin ContentTypes \cup Aliases \/ b.Name = ""

Polls(b) == b.PollIntervalMs.type = "number"
                /\ b.PollIntervalMs.number >= 10 * PollMinIntervalMs

BlockWarns(b) ==
    \/ b.Type \in Aliases
    \/ Present(b.PollIntervalMs) /\ b.PollIntervalMs.type # "number"
    \/ /\ b.PollIntervalMs.type = "number"
       /\ b.PollIntervalMs.number > 0 /\ b.PollIntervalMs.number < 10 * PollMinIntervalMs
    \/ Polls(b) /\ b.tx = ""
    \/ ~b.lists

ActivePollers == {i \in DOMAIN file.Content : Polls(file.Content[i]) /\ file.Content[i].tx # ""}

\* More than one poller, or one that polls more often than ten times a second.
PollWarns ==
    \/ Cardinality(ActivePollers) > 1
    \/ \E i \in ActivePollers :
          10000 > MaxAggregatePollHz * file.Content[i].PollIntervalMs.number

-----------------------------------------------------------------------------
(* validateScenarioFile.                                                   *)

Parities == {"none", "even", "odd", "mark", "space"}

FileErrs ==
    \/ ~Text(file.Name)
    \/ file.form # "array"
    \/ \E i \in DOMAIN file.Content : BlockErrs(file.Content[i])
    \/ \E i \in DOMAIN file.nodes : NodeErrs(file.nodes[i])
    \/ \E i \in DOMAIN file.edges : EdgeErrs(file.edges[i])

\* Slip: DataBits not checked.
SettingWarnsLess ==
    \/ Present(file.Description) /\ file.Description.type # "string"
    \/ file.Banners.type \notin {"null", "array"}
    \/ Present(file.Baudrate) /\ file.Baudrate.type # "number"
    \/ file.Parity.type = "string" /\ file.Parity.word \notin Parities
    \/ /\ Present(file.StopBits)
       /\ ~(file.StopBits.type = "number" /\ file.StopBits.number \in {10, 15, 20})

SettingWarns ==
    \/ Present(file.Description) /\ file.Description.type # "string"
    \/ file.Banners.type \notin {"null", "array"}
    \/ Present(file.Baudrate) /\ file.Baudrate.type # "number"
    \/ file.Parity.type = "string" /\ file.Parity.word \notin Parities
    \/ /\ Present(file.StopBits)
       /\ ~(file.StopBits.type = "number" /\ file.StopBits.number \in {10, 15, 20})
    \/ /\ Present(file.DataBits)
       /\ ~(file.DataBits.type = "number" /\ file.DataBits.number \in {70, 80})

FileWarns ==
    \/ SettingWarns
    \/ \E i \in DOMAIN file.Content : BlockWarns(file.Content[i])
    \/ PollWarns
    \/ \E i \in DOMAIN file.nodes : NodeWarns(file.nodes[i])

Clean == ~FileErrs /\ ~FileWarns

-----------------------------------------------------------------------------
(* normalizeScenarioPayload. Content may be an array or the JSON text of    *)
(* one, which the file check does not take.                                *)

Refused ==
    \/ ~Text(file.Name)
    \/ file.form = "none"
    \/ Present(file.Parity) /\ file.Parity.word \notin Parities
    \/ Present(file.StopBits) /\ file.StopBits.number \notin {10, 20}
    \/ Present(file.DataBits) /\ file.DataBits.number \notin {70, 80}
    \/ Present(file.FlowControl) /\ file.FlowControl.word \notin {"none", "hardware"}
    \/ Present(file.NewLine) /\ file.NewLine.word \notin {"none", "crlf", "cr", "lf"}
    \/ /\ Present(file.Baudrate)
       /\ file.Baudrate.number <= 0 \/ file.Baudrate.number % 10 # 0
    \/ file.Guide.type = "string" /\ file.Guide.word = "overlong"
    \/ file.FeatureImage.type = "string" /\ file.FeatureImage.word \notin {"", "https"}

Default(v, default) == IF Present(v) THEN v ELSE default

\* A text, or the empty one, which Guide and FeatureImage store as NULL.
Trimmed(v) == IF v.type = "string" THEN v ELSE Str("")
Nullable(v) == IF Text(v) THEN v ELSE Null

NormalBanners == IF file.Banners.type = "array" THEN file.Banners.items ELSE <<>>

BannerAt(i, banner) ==
    IF Len(NormalBanners) >= i /\ Present(NormalBanners[i]) THEN NormalBanners[i] ELSE banner

\* createScenario and updateScenario. Flow is not stored.
Columns ==
    [saved |-> TRUE,
     set |-> [Name |-> file.Name,
              Description |-> Trimmed(file.Description),
              Guide |-> Nullable(file.Guide),
              FeatureImage |-> Nullable(file.FeatureImage),
              Baudrate |-> IF Present(file.Baudrate) THEN Num(file.Baudrate.number) ELSE Null,
              Parity |-> Str(Default(file.Parity, Str("none")).word),
              StopBits |-> Num(Default(file.StopBits, Num(10)).number),
              DataBits |-> Num(Default(file.DataBits, Num(80)).number),
              FlowControl |-> Str(Default(file.FlowControl, Str("none")).word),
              NewLine |-> Str(Default(file.NewLine, Str("none")).word),
              Banner1 |-> BannerAt(1, file.Banner1),
              Banner2 |-> BannerAt(2, file.Banner2)],
     banners |-> NormalBanners,
     content |-> file.Content]

\* What the columns of the row c take: no text longer than STRING(n), no object where
\* Sequelize writes a text, no number beyond INTEGER.
Fits(c) ==
    /\ \A n \in {"Name", "Description", "Banner1", "Banner2"} : c.set[n].word # "overlong"
    /\ \A n \in {"Banner1", "Banner2"} : c.set[n].type \notin {"object", "array"}
    /\ c.set.Baudrate.number <= MaxInteger

\* Scenario.create and update, in MySQL's strict mode.
Storable == Fits(Columns) /\ (file.Banners.type = "array" => file.Banners.fits)

-----------------------------------------------------------------------------
(* mapScenarioOutput and mapScenarioForExport.                             *)

IsText(v) == v.type = "string"

\* Those of a list that are texts, in their order.
Texts(list) ==
    LET At == {i \in DOMAIN list : IsText(list[i])}
    IN  [k \in 1..Cardinality(At) |->
            list[CHOOSE i \in At : Cardinality({j \in At : j <= i}) = k]]

ShownBanners == Texts(fileRow.banners)

\* Slip: banners rebuilt from the two old columns.
ExportedColumns ==
    [n \in DOMAIN file |->
        CASE n \in {"Banner1", "Banner2"} -> Null
          [] n = "Banners" ->
                  [type |-> "array",
                   items |-> Texts(<<fileRow.set.Banner1, fileRow.set.Banner2>>),
                   fits |-> TRUE]
          [] n = "form" -> "array"
          [] n = "Content" -> fileRow.content
          [] n \in {"nodes", "edges"} -> <<>>
          [] OTHER -> fileRow.set[n]]

Exported ==
    [n \in DOMAIN file |->
        CASE n \in {"Banner1", "Banner2"} -> Null
          [] n = "Banners" -> [type |-> "array", items |-> ShownBanners, fits |-> TRUE]
          [] n = "form" -> "array"
          [] n = "Content" -> fileRow.content
          [] n \in {"nodes", "edges"} -> <<>>
          [] OTHER -> fileRow.set[n]]

-----------------------------------------------------------------------------
Edited(new) ==
    /\ edits < MaxEdits
    /\ edits' = edits + 1
    /\ file' = new
    /\ UNCHANGED fileRow

EditSetting == \E n \in SettingNames : \E v \in Settings[n] : Edited([file EXCEPT ![n] = v])

EditBanners == \E b \in BannerLists : Edited([file EXCEPT !.Banners = b])

EditContent ==
    \/ \E f \in {"array", "json", "none"} : Edited([file EXCEPT !.form = f])
    \/ \E b \in Blocks : Edited([file EXCEPT !.Content = Append(@, b)])
    \/ file.Content # <<>> /\ Edited([file EXCEPT !.Content = Tail(@)])

EditFlow ==
    \/ \E i \in DOMAIN file.nodes : \E n \in Nodes : Edited([file EXCEPT !.nodes[i] = n])
    \/ \E i \in DOMAIN file.edges : \E e \in Edges : Edited([file EXCEPT !.edges[i] = e])
    \/ file.edges # <<>> /\ Edited([file EXCEPT !.edges = Tail(@)])
    \/ file.nodes # <<>> /\ Edited([file EXCEPT !.nodes = Tail(@)])

\* A 400, and an error of the database, change nothing.
SaveFile ==
    /\ ~Refused /\ Storable
    /\ fileRow' = Columns
    /\ UNCHANGED <<file, edits>>

ExportFile ==
    /\ fileRow.saved
    /\ file' = Exported
    /\ UNCHANGED <<fileRow, edits>>

FileNext == EditSetting \/ EditBanners \/ EditContent \/ EditFlow \/ SaveFile \/ ExportFile

FileSpec == FileInit /\ [][FileNext]_fileVars

-----------------------------------------------------------------------------
(* Properties.                                                             *)

\* What the file check never looks at, or sees otherwise than the save: one and a half
\* stop bits, a Parity that is not a text, NewLine, FlowControl, Guide and FeatureImage;
\* a baud rate below 1, with a fraction or beyond INTEGER; a Name, a Description or a
\* first or second banner longer than its column, a banner there that is an object or an
\* array, and a list of banners longer than its column.
Unchecked ==
    LET banners == {BannerAt(1, file.Banner1), BannerAt(2, file.Banner2)} IN
    \/ file.StopBits.number = 15
    \/ Present(file.Parity) /\ file.Parity.type # "string"
    \/ \E n \in {"NewLine", "FlowControl", "Guide", "FeatureImage"} : Present(file[n])
    \/ /\ Present(file.Baudrate)
       /\ file.Baudrate.number \notin 1..MaxInteger \/ file.Baudrate.number % 10 # 0
    \/ \E v \in {file.Name, file.Description} \cup banners : v.word = "overlong"
    \/ \E v \in banners : v.type \in {"object", "array"}
    \/ file.Banners.type = "array" /\ ~file.Banners.fits

\* A file that the check finds without fault is saved, those gaps excepted: neither
\* normalizeScenarioPayload refuses it nor the columns do (scenarioFileValidator.js:390-490,
\* scenarioValidation.js:25-84, scenarioCrud.js:32-63, models/scenario.js:18-119).
CleanFilesSave == Clean /\ ~Unchecked => ~Refused /\ Storable

\* The flow of a file without fault runs: every edge leads from a node to a node, a
\* condition goes on whatever its outcome, and a block node with a position shows a
\* block (scenarioFlowValidator.js:63-204). Negative and broken positions are excepted:
\* the check lets them pass.
CleanFlowRuns ==
    Clean =>
        LET Ids == {file.nodes[i].id : i \in DOMAIN file.nodes}
        IN  \A i \in DOMAIN file.nodes :
                LET n == file.nodes[i]
                IN  /\ n.kind = "condition" =>
                          \A h \in {"true", "false"} : \E j \in DOMAIN file.edges :
                              /\ file.edges[j].source = n.id /\ file.edges[j].sourceHandle = h
                              /\ file.edges[j].target \in Ids
                    /\ n.kind = "block" /\ n.blockNo >= 0 /\ n.blockNo % 10 = 0 =>
                          (n.blockNo \div 10) + 1 \in DOMAIN file.Content

\* A scenario that is exported and imported is the scenario that was saved. Excepted
\* are banners that are not texts, and those given as Banner1 or Banner2 with an empty
\* Banners, which no longer show (scenarioPresenter.js:13-20, scenarioCrud.js:45-47).
ExportRestores ==
    [][ ExportFile /\ ShownBanners = fileRow.banners
            /\ (fileRow.banners = <<>> => ~Present(fileRow.set.Banner1))
            /\ (Len(fileRow.banners) < 2 => ~Present(fileRow.set.Banner2))
        => ~Refused' /\ Storable' /\ Columns' = fileRow ]_fileVars
=============================================================================

------------------------------- MODULE Website -------------------------------
(* A reader on the website (website/src): following links through redirects,
   the server rendering documents block by block (lib/docs/markdown.tsx), and
   the choices made on the download page (components/DownloadSection.tsx), whose
   state lasts as long as the page is shown.

   A line of a document is [kind, links]: what the regular expressions of
   renderMarkdown take it for, and the .md links in it that are not inline
   code.  Text, anchors and table cells are left out.  "bare" is a heading
   mark with one blank and no text behind it. *)
EXTENDS Downloads, DocPages

CONSTANTS Stores,     \* what public/downloads may hold, by name
          Browsers,   \* [names, arch]: what user agents say, by name
          Visits,     \* [store, browser, prefersFa]: the builds and readers there are
          Content     \* the lines of each document

VARIABLES visit,      \* the build of the website and the reader
          path,       \* the address of the page shown, NoPage before the first
          pending,    \* the address that was asked for and not answered
          aim,        \* the document that the link followed last names
          shown,      \* [kind, doc, english, links, aim]: the page shown
          render,     \* [doc, english, at, links]: the document being rendered
          download    \* [ready, browser, role, manual, tag]: the download page

vars == <<visit, path, pending, aim, shown, render, download>>

Nothing == [kind |-> "nothing", doc |-> NoPage, english |-> FALSE, links |-> {}, aim |-> NoPage]

Init ==
    /\ visit \in Visits
    /\ path = NoPage
    /\ pending = Address("", "home", <<>>)
    /\ aim = NoPage
    /\ shown = Nothing
    /\ render = NoPage
    /\ download = None

-----------------------------------------------------------------------------
(* The reader follows a link, also while another page is on its way. *)

PageLinks ==
    LET lang == path.lang IN
    CASE shown.kind = "missing" -> NotFoundLinks
      [] path.page = "docs" /\ shown.kind # "missing" ->
           DocsNav(lang)
           \cup (IF path.slug = <<>> THEN DocsIndexCards(lang)
                 ELSE IF path.slug = <<"all">> THEN AllDocs(lang)
                 ELSE Crumbs(lang, shown.doc, path.slug))
      [] path.page \in {"updates", "blog"} /\ path.slug = <<>> -> PostCards(lang, path.page)
      [] OTHER -> {}

Links ==
    IF path = NoPage THEN {}
    ELSE HeaderLinks(path) \cup FooterLinks(path.lang) \cup PageLinks \cup shown.links

Follow(link) ==
    /\ pending' = link.to
    /\ aim' = link.aim
    /\ render' = NoPage
    /\ UNCHANGED <<visit, path, shown, download>>

Click == \E link \in Links : Follow(link)

-----------------------------------------------------------------------------
(* The server answers. *)

Asked == PageAt(pending, visit.prefersFa)
Waiting(kind) == pending # NoPage /\ render = NoPage /\ Asked.kind = kind

(* getLocalReleases is read when the website is built. *)
Built == [store \in DOMAIN Stores |-> Releases(Stores[store])]
Offered == Built[visit.store]

(* The download page starts afresh: the newest release, role "inside". *)
FreshDownload ==
    [ready |-> FALSE, browser |-> Browsers[visit.browser], role |-> "inside", manual |-> "unknown",
     tag |-> IF Offered = <<>> THEN None ELSE Offered[1].tag]

(* Faulty variant: the choices outlive the page. *)
ShowKeepingChoices(page) ==
    /\ shown' = page
    /\ path' = pending
    /\ pending' = NoPage
    /\ render' = NoPage
    /\ download' = IF pending.page = "download" THEN FreshDownload ELSE download
    /\ UNCHANGED <<visit, aim>>

Show(page) ==
    /\ shown' = page
    /\ path' = pending
    /\ pending' = NoPage
    /\ render' = NoPage
    /\ download' = IF pending.page = "download" THEN FreshDownload ELSE None
    /\ UNCHANGED <<visit, aim>>

Redirected ==
    /\ Waiting("redirect")
    /\ pending' = Asked.to
    /\ UNCHANGED <<visit, path, aim, shown, render, download>>

PageShown ==
    /\ Waiting("plain") \/ Waiting("missing")
    /\ Show([Nothing EXCEPT !.kind = Asked.kind, !.aim = aim])

RenderStarts ==
    /\ Waiting("document")
    /\ render' = [doc |-> Asked.doc, english |-> Asked.english, at |-> 1, links |-> {}]
    /\ UNCHANGED <<visit, path, pending, aim, shown, download>>

-----------------------------------------------------------------------------
(* renderMarkdown: one turn of its loop for each block. *)

Kinds == {"fence", "heading", "bare", "blank", "quote", "bullet", "number", "rule", "row", "sep", "text"}

(* The first line from i on that is not of these kinds. *)
RunEnd(lines, i, kinds) ==
    CHOOSE j \in i .. Len(lines) + 1 :
      /\ j = Len(lines) + 1 \/ lines[j].kind \notin kinds
      /\ \A k \in i .. j - 1 : lines[k].kind \in kinds

LinksIn(lines, i, j) == UNION {lines[k].links : k \in i .. j - 1}

Block(next, links) == [next |-> next, links |-> links]

(* Faulty variant: a paragraph also ends where a table might begin. *)
ParagraphBeforeRow(lines, i) ==
    LET j == RunEnd(lines, i, {"rule", "sep", "text"})
    IN Block(j, LinksIn(lines, i, j))

(* Rules and tables do not end a paragraph; a bare heading mark does, and is
   not a heading: a paragraph that begins with one ends before it. *)
Paragraph(lines, i) ==
    LET j == RunEnd(lines, i, {"rule", "row", "sep", "text"})
    IN Block(j, LinksIn(lines, i, j))

Table(lines, i) ==
    LET j == RunEnd(lines, i + 2, {"row", "sep"})
    IN Block(j, lines[i].links \cup LinksIn(lines, i + 2, j))

BlockAt(lines, i) ==
    LET kind == lines[i].kind IN
    CASE kind = "fence" -> Block(RunEnd(lines, i + 1, Kinds \ {"fence"}) + 1, {})
      [] kind = "heading" -> Block(i + 1, lines[i].links)
      [] kind \in {"blank", "rule"} -> Block(i + 1, {})
      [] kind \in {"quote", "bullet", "number"} ->
           LET j == RunEnd(lines, i, {kind}) IN Block(j, LinksIn(lines, i, j))
      [] kind \in {"row", "sep"} /\ i < Len(lines) /\ lines[i + 1].kind = "sep" -> Table(lines, i)
      [] OTHER -> Paragraph(lines, i)

RenderBlock ==
    /\ render # NoPage /\ render.at <= Len(Content[render.doc])
    /\ LET block == BlockAt(Content[render.doc], render.at)
       IN render' = [render EXCEPT
                       !.at = block.next,
                       !.links = @ \cup {MarkdownLink(render.doc, pending.lang, relative) :
                                           relative \in block.links}]
    /\ UNCHANGED <<visit, path, pending, aim, shown, download>>

RenderEnds ==
    /\ render # NoPage /\ render.at > Len(Content[render.doc])
    /\ Show([kind |-> "document", doc |-> render.doc, english |-> render.english,
             links |-> render.links, aim |-> aim])

-----------------------------------------------------------------------------
(* The download page: its effects run once, then the reader chooses. *)

EffectsRun ==
    /\ download # None /\ ~download.ready
    /\ download' = [download EXCEPT !.ready = TRUE]
    /\ UNCHANGED <<visit, path, pending, aim, shown, render>>

Choose(choice) ==
    /\ download # None
    /\ download' = choice
    /\ UNCHANGED <<visit, path, pending, aim, shown, render>>

SetRole == \E role \in Roles : Choose([download EXCEPT !.role = role])

(* From the list of platforms, or a card of the grid. *)
SetPlatform ==
    \E platform \in Platforms \cup {"unknown"} : Choose([download EXCEPT !.manual = platform])

SetTag ==
    \E r \in Range(Offered) : Choose([download EXCEPT !.tag = r.tag])

-----------------------------------------------------------------------------
Server == Redirected \/ PageShown \/ RenderStarts \/ RenderBlock \/ RenderEnds

Next == Click \/ Server \/ EffectsRun \/ SetRole \/ SetPlatform \/ SetTag

(* The server works on what was asked for last. *)
Spec == Init /\ [][Next]_vars /\ WF_vars(Server)

-----------------------------------------------------------------------------
Chosen == Selected(Offered, download)

Documents ==
    {Doc(slug) : slug \in Docs}
    \cup UNION {[page : {p}, lang : {l}, slug : Posts[p][l]] : p \in DOMAIN Posts, l \in {"en", "fa"}}

(* What can be shown, and the download page with it. *)
TypeOK ==
    /\ shown.kind \in {"nothing", "plain", "missing", "document"}
    /\ (shown.kind = "nothing") = (path = NoPage)
    /\ (shown.kind = "document") = (shown.doc # NoPage)
    /\ shown.doc \in Documents \cup {NoPage}
    /\ shown.english => path.lang = "fa"
    /\ render # NoPage => pending # NoPage /\ render.doc \in Documents /\ render.at \in Nat
    /\ (download # None) = (path # NoPage /\ path.page = "download")
    /\ download # None =>
         /\ download.role \in Roles /\ download.manual \in Platforms \cup {"unknown"}
         /\ Offered # <<>> => \E r \in Range(Offered) : r.tag = download.tag

(* page.tsx lines 73 to 104 and markdown.tsx line 127: what is asked for is
   shown unless the reader asks for something else again and again: redirects
   come to an end and so does the rendering of a document, which has no bare
   heading mark.  (A legacy redirect that names itself never ends.) *)
PageAnswered ==
    \/ []<>(pending = NoPage)
    \/ []<><<Click>>_vars
    \/ <>[](pending # NoPage /\ Loops(pending))

(* markdown.tsx lines 83 to 103, page.tsx lines 82 to 102 and docHref: a link
   that names a document of the repository opens that document or its
   translation, from whatever page, directory and language it is followed.  (It
   speaks of pages that are shown: the link of docs/index.md line 26 to signal
   is redirected to itself for ever and never gets one, see PageAnswered.) *)
LinkOpensDoc ==
    shown.aim \in Documents =>
      /\ shown.kind = "document" /\ shown.doc.page = shown.aim.page
      /\ shown.doc.slug \in {shown.aim.slug, <<"fa">> \o shown.aim.slug}

(* DownloadSection.tsx lines 285 to 311 and 382: when the panel says that
   checksum and signature are available, step 1 fetches, under that name, every file
   that steps 2 and 3 open, whatever release, role and platform are chosen.
   (Not so where Android falls back on an artifact that is not the APK.) *)
StepsSelfContained ==
    download # None /\ Commands(Chosen, download) # None =>
      LET a == Recommended(Chosen, download)
          c == Commands(Chosen, download)
      IN Verified(Chosen, download) = [checksum |-> TRUE, signature |-> TRUE]
         /\ (Platform(download) = "android" => a.name = ApkName)
         => /\ c.opened.files \subseteq c.download.files
            /\ c.opened.sums \subseteq c.download.sums
            /\ c.opened.bundle \subseteq c.download.bundle

(* The order of plain versions, of numbers below 100. *)
Number(version) == (version[1] * 100 + version[2]) * 100 + version[3]

(* Lines 241 to 254 and 621 to 640, local.ts line 166 and SiteFooter.tsx line
   45: the page recommends what the card of the platform offers and nothing that
   it calls unsupported, it starts with a release none is newer than, and the
   footer names that one.  (The card of
   the Raspberry Pi offers "inside" whatever role is chosen.) *)
OffersAgree ==
    download # None =>
      /\ LET p == Platform(download)
         IN p # "unknown" /\ ~(p = "raspberrypi-arm64" /\ download.role = "outside")
              => Card(Chosen, download, p) = Recommended(Chosen, download)
      /\ Recommended(Chosen, download) # None => Support(download) # "unsupported"
      /\ Offered # <<>> =>
           /\ (\A r \in Range(Offered) : r.tag.version # None) =>
                \A r \in Range(Offered) : Number(r.tag.version) <= Number(Offered[1].tag.version)
           /\ FooterRelease(Stores[visit.store]) \in {None, Offered[1].tag}
=============================================================================

------------------------------ MODULE DocPages -------------------------------
(* Where an address of the website leads, and where the links of its pages
   point: app/docs, app/updates and app/blog with their [lang] twins, the
   markdown links of lib/docs/markdown.tsx, header and footer.

   An address is [lang, page, slug]: the language prefix ("" for none), the
   first segment, and the rest for the three kinds of pages that have one.  A
   document is [page, lang, slug]; those under docs have the language in the
   slug.  A link is [to, aim]: the address, and the document the code or the
   text that makes the link names by it, if any. *)
EXTENDS Integers, Sequences, SequencesExt

CONSTANTS NoPage,
          Docs,      \* the slugs of the files under docs
          Posts,     \* the slugs of updates and blog posts, by page and language
          Legacy     \* legacyRedirects: from old one-segment slugs to slugs

(* The repository's files: no document has the name of a directory that has an
   index, for both would have one address, nor the name of the list of all. *)
ASSUME DocsAssumption ==
    \A slug \in Docs : Append(slug, "index") \notin Docs /\ slug # <<"all">>

(* The items of SiteHeader.tsx, and the pages there is no [lang] twin of. *)
NavItems ==
    {"home", "manifest", "technology", "security", "docs", "blog", "updates", "download",
     "architecture", "dashboard", "roadmap", "community", "support"}
Unlocalized == {"dashboard"}

Address(lang, page, slug) == [lang |-> lang, page |-> page, slug |-> slug]
Doc(slug) == [page |-> "docs", lang |-> "", slug |-> slug]

(* getUILangFromPathname *)
UILang(lang) == IF lang = "fa" THEN "fa" ELSE "en"

-----------------------------------------------------------------------------
(* Links *)

(* resolveHref and docHref: an index goes by the name of its directory. *)
DocHref(lang, page, slug) ==
    Address(lang, page, IF slug # <<>> /\ Last(slug) = "index" THEN Front(slug) ELSE slug)

Climb(slug, segment) ==
    CASE segment = "." -> slug
      [] segment = ".." -> IF slug = <<>> THEN <<>> ELSE Front(slug)
      [] OTHER -> Append(slug, segment)

(* Faulty variant: relative to the document, as if it were a directory. *)
JoinedToSelf(slug, relative) == FoldLeft(Climb, <<>>, slug \o relative)

Joined(slug, relative) == FoldLeft(Climb, <<>>, Front(slug) \o relative)

To(lang, page) == [to |-> Address(lang, page, <<>>), aim |-> NoPage]

(* What a relative link in the text of a document means, whatever the code
   makes of it: its names, below the directory as many levels above the
   document's own as it has "..".  Above docs there is no document. *)
Named(doc, relative) ==
    LET dir == Front(doc.slug)
        ups == Len(SelectSeq(relative, LAMBDA segment : segment = ".."))
        names == SelectSeq(relative, LAMBDA segment : segment \notin {".", ".."})
    IN IF ups > Len(dir) THEN NoPage ELSE SubSeq(dir, 1, Len(dir) - ups) \o names

MarkdownLink(doc, lang, relative) ==
    [to |-> DocHref(lang, doc.page, Joined(doc.slug, relative)),
     aim |-> [doc EXCEPT !.slug = Named(doc, relative)]]

(* The other language: the same address under the other prefix. *)
Switch(address) ==
    [to |-> [address EXCEPT !.lang = IF UILang(address.lang) = "fa" THEN "en" ELSE "fa"],
     aim |-> NoPage]

HeaderLinks(address) ==
    {To(address.lang, page) : page \in NavItems} \cup {Switch(address)}

LinkTo(lang, slug) == [to |-> Address(lang, "docs", slug), aim |-> Doc(slug)]

FooterLinks(lang) ==
    {To(lang, page) : page \in {"docs", "download", "support"}}
    \cup {LinkTo(lang, slug) : slug \in {<<"install">>, <<"architecture">>, <<"threat-model">>}}

(* app/not-found.tsx *)
NotFoundLinks == {To("", "home"), To("", "download")}

(* DocsLayout: the documents of its lists that there are. *)
Picked ==
    {<<"index">>, <<"install">>, <<"architecture">>, <<"core-modules">>, <<"bundle-format">>,
     <<"signal">>, <<"threat-model">>, <<"user", "install-android">>, <<"user", "install-linux">>,
     <<"user", "update">>, <<"user", "safety">>, <<"outside", "verification">>,
     <<"outside", "trust-model">>, <<"outside", "bundle-generation">>, <<"android", "setup">>,
     <<"android", "architecture">>, <<"android", "troubleshooting">>, <<"governance", "model">>,
     <<"governance", "trust">>, <<"governance", "resilience">>, <<"fa", "index">>,
     <<"fa", "install">>, <<"fa", "user", "safety">>, <<"fa", "outside", "verification">>}

DocsNav(lang) ==
    {[to |-> DocHref(lang, "docs", slug), aim |-> Doc(slug)] : slug \in Picked \cap Docs}
    \cup {[to |-> Address(lang, "docs", <<"all">>), aim |-> NoPage]}

(* app/docs/all: the documents of one language, Farsi ones without "fa". *)
AllDocs(lang) ==
    LET display(slug) == IF lang = "fa" THEN Tail(slug) ELSE slug
    IN {[to |-> DocHref(lang, "docs", display(slug)), aim |-> Doc(slug)] :
          slug \in {s \in Docs \ {<<"index">>} : (lang = "fa") = (s[1] = "fa")}}

(* app/docs: the cards below the overview. *)
DocsIndexCards(lang) ==
    {LinkTo(lang, slug) : slug \in {<<"install">>, <<"user", "safety">>, <<"architecture">>,
                                    <<"outside", "verification">>}}
    \cup IF lang = "fa" THEN {}
         ELSE {LinkTo("fa", <<>>), LinkTo("fa", <<"user", "safety">>)}

(* app/updates and app/blog: the posts of one language. *)
PostCards(lang, page) ==
    {[to |-> Address(lang, page, slug),
      aim |-> [page |-> page, lang |-> UILang(lang), slug |-> slug]] :
       slug \in Posts[page][UILang(lang)]}

-----------------------------------------------------------------------------
(* Answers *)

Answer(kind, to, doc, english) == [kind |-> kind, to |-> to, doc |-> doc, english |-> english]
Redirect(to) == Answer("redirect", to, NoPage, FALSE)
Missing == Answer("missing", NoPage, NoPage, FALSE)
Plain == Answer("plain", NoPage, NoPage, FALSE)
Document(doc, english) == Answer("document", NoPage, doc, english)

(* readDocMarkdownBySlug, then tryIndexFallback. *)
Found(slug) ==
    CASE slug \in Docs -> slug
      [] slug \notin Docs /\ slug # <<>> /\ Last(slug) # "index" /\ Append(slug, "index") \in Docs ->
           Append(slug, "index")
      [] OTHER -> NoPage

(* app/[lang]/docs/[...slug]: under /fa, "fa" goes before the slug. *)
MappedSlug(lang, slug) == IF lang = "fa" /\ slug[1] # "fa" THEN <<"fa">> \o slug ELSE slug

DocPage(lang, slug) ==
    CASE Len(slug) = 1 /\ slug[1] \in DOMAIN Legacy ->
           Redirect(Address(lang, "docs", Legacy[slug[1]]))
      [] lang = "fa" /\ Len(slug) > 1 /\ slug[1] = "fa" /\ slug[2] = "fa" ->
           Redirect(Address(lang, "docs", SubSeq(slug, 3, Len(slug))))
      [] slug = <<"index">> -> Redirect(Address(lang, "docs", <<>>))
      [] OTHER ->
           IF Found(slug) # NoPage THEN Document(Doc(Found(slug)), FALSE)
           ELSE IF lang = "fa" /\ slug[1] = "fa" /\ Found(Tail(slug)) # NoPage
                THEN Document(Doc(Found(Tail(slug))), TRUE)
                ELSE Missing

(* The path above a document, one crumb for each segment shown of its slug;
   under /fa of the slug that was asked for, without a leading "fa". *)
Crumbs(lang, doc, asked) ==
    LET slug == IF lang = "fa" THEN Tail(MappedSlug(lang, asked)) ELSE doc.slug
        display == SelectSeq(slug, LAMBDA segment : segment # "index")
    IN {[to |-> Address(lang, "docs", SubSeq(display, 1, n)), aim |-> NoPage] :
          n \in 0 .. Len(display)}

(* app/docs: the overview, if there is one. *)
DocsIndexPage(lang) ==
    LET overview == IF lang = "fa" THEN <<"fa", "index">> ELSE <<"index">>
    IN IF overview \in Docs THEN Document(Doc(overview), FALSE) ELSE Plain

PostPage(lang, page, slug) ==
    LET post(l) == [page |-> page, lang |-> l, slug |-> slug]
    IN CASE slug \in Posts[page][UILang(lang)] -> Document(post(UILang(lang)), FALSE)
         [] lang = "fa" /\ slug \notin Posts[page]["fa"] /\ slug \in Posts[page]["en"] ->
              Document(post("en"), TRUE)
         [] OTHER -> Missing

(* The page behind an address; app/page.tsx asks for the browser's language. *)
PageAt(address, prefersFa) ==
    CASE address.page = "home" /\ address.lang = "" ->
           Redirect(Address(IF prefersFa THEN "fa" ELSE "en", "home", <<>>))
      [] address.page \in Unlocalized /\ address.lang # "" -> Missing
      [] address.page = "docs" /\ address.slug = <<>> -> DocsIndexPage(address.lang)
      [] address.page = "docs" /\ address.slug = <<"all">> -> Plain
      [] address.page = "docs" /\ address.slug \notin {<<>>, <<"all">>} ->
           DocPage(address.lang, MappedSlug(address.lang, address.slug))
      [] address.page \in {"updates", "blog"} /\ address.slug # <<>> ->
           PostPage(address.lang, address.page, address.slug)
      [] OTHER -> Plain

(* Redirects that lead to themselves: legacyRedirects holds "signal". *)
Loops(address) ==
    /\ address.page = "docs" /\ address.lang # "fa" /\ Len(address.slug) = 1
    /\ address.slug[1] \in DOMAIN Legacy /\ Legacy[address.slug[1]] = address.slug
=============================================================================

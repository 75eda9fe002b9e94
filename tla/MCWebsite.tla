------------------------------ MODULE MCWebsite ------------------------------
(* A few of the documents of the repository, with tables, quotes, code and the
   links that climb, point at an index or at nothing; a shipped release, and
   two later ones that a comparison as text would put in the wrong order. *)
EXTENDS Website

Line(kind, links) == [kind |-> kind, links |-> links]
Text == Line("text", {})
Blank == Line("blank", {})

Slugs ==
    {<<"index">>, <<"install">>, <<"install", "linux">>, <<"signal">>,
     <<"guide", "index">>, <<"fa", "index">>, <<"fa", "install">>}

OldSlugs == [signal |-> <<"signal">>, mobile |-> <<"install", "linux">>, verification |-> <<"install">>]

NewsAndBlog ==
    [updates |-> [en |-> {<<"v1">>, <<"v2">>}, fa |-> {<<"v1">>}],
     blog |-> [en |-> {<<"launch">>}, fa |-> {}]]

Pages ==
    [d \in {Doc(slug) : slug \in Slugs} |->
       CASE d.slug = <<"index">> ->
              <<Line("heading", {}), Line("bullet", {<<"fa", "index">>, <<"install">>}),
                Line("bullet", {<<"signal">>, <<"lost">>}), Text, Line("row", {}), Blank,
                Line("row", {<<"guide", "index">>}), Line("sep", {}), Line("row", {})>>
         [] d.slug = <<"install">> ->
              <<Line("fence", {}), Text, Line("bullet", {}), Line("fence", {}), Line("rule", {}),
                Line("number", {<<"install", "linux">>, <<".", "guide", "index">>})>>
         [] d.slug = <<"install", "linux">> ->
              <<Line("quote", {<<"..", "install">>}), Line("row", {}), Line("fence", {}), Text>>
         [] d.slug = <<"fa", "install">> ->
              <<Line("bullet", {<<"..", "install", "linux">>}), Line("sep", {}), Line("rule", {})>>
         [] d.slug = <<"fa", "index">> -> <<Line("text", {<<"install">>}), Line("heading", {})>>
         [] d.slug = <<"guide", "index">> -> <<Line("text", {<<"..", "..", "index">>})>>
         [] OTHER -> <<Text>>]

Contents ==
    [d \in DOMAIN Pages \cup
           UNION {[page : {p}, lang : {l}, slug : NewsAndBlog[p][l]] :
                    p \in {"updates", "blog"}, l \in {"en", "fa"}} |->
       IF d \in DOMAIN Pages THEN Pages[d]
       ELSE IF d.slug = <<"v1">> THEN <<Line("heading", {}), Line("text", {<<"v2">>})>>
       ELSE <<Text>>]

-----------------------------------------------------------------------------
Named0(prefix, role, tag, target, ext) ==
    [prefix |-> prefix, role |-> role, tag |-> tag, target |-> target, ext |-> ext]

V(a, b, c, rank) == [version |-> <<a, b, c>>, rank |-> rank]
V010 == V(0, 1, 0, 1)
V0100 == V(0, 10, 0, 2)
V090 == V(0, 9, 0, 4)
Candidate == [version |-> None, rank |-> 3]

Bundle(tag, role, target, ext) == Named0("sunlionet-", role, tag, target, ext)
LongApk(tag) == Named0("shadownet-", None, tag, "android-app-release", ".apk")

Shipped ==
    LET files == <<Bundle(V010, "inside", "android-arm64", ""),
                   Bundle(V010, "inside", "linux-amd64", ".tar.gz"),
                   Bundle(V010, "inside", "linux-arm64", ".tar.gz"),
                   Bundle(V010, "outside", "windows-amd64", ".zip"),
                   Bundle(V010, "outside", "linux-arm64", ".tar.gz")>>
    IN [tag |-> V010, release |-> TRUE, notes |-> TRUE, files |-> files,
        sums |-> Range(files) \ {files[3]}, signed |-> {}]

Full(tag) ==
    LET files == <<ApkName, LongApk(tag), Bundle(tag, "inside", "linux-amd64", ".deb"),
                   Bundle(tag, "outside", "linux-amd64", ".tar.gz"),
                   Bundle(V010, "outside", "linux-arm64", ".tar.gz"),
                   Bundle(tag, "inside", "linux-arm64", ".tar.gz")>>
    IN [tag |-> tag, release |-> TRUE, notes |-> tag # V090, files |-> files,
        sums |-> Range(files), signed |-> Signing]

Other == [Full(V010) EXCEPT !.release = FALSE]

SomeStores ==
    [shipped |-> [unreadable |-> FALSE, dirs |-> {Shipped}],
     later |-> [unreadable |-> FALSE, dirs |-> {Full(V090), Full(V0100), Shipped, Other}],
     candidate |-> [unreadable |-> FALSE, dirs |-> {Full(V090), Full(Candidate)}],
     broken |-> [unreadable |-> TRUE, dirs |-> {Shipped}]]

SomeBrowsers ==
    [phone |-> [names |-> {"android", "linux"}, arch |-> "unknown"],
     server |-> [names |-> {"linux"}, arch |-> "amd64"],
     laptop |-> [names |-> {"macos"}, arch |-> "arm64"]]

SomeVisits ==
    {[store |-> "shipped", browser |-> "phone", prefersFa |-> TRUE],
     [store |-> "later", browser |-> "phone", prefersFa |-> FALSE],
     [store |-> "later", browser |-> "laptop", prefersFa |-> FALSE],
     [store |-> "candidate", browser |-> "server", prefersFa |-> FALSE],
     [store |-> "broken", browser |-> "server", prefersFa |-> TRUE]}
=============================================================================

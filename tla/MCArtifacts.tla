----------------------------- MODULE MCArtifacts -----------------------------
(* Two kinds of files; blocks name a page, also one in a directory, and    *)
(* the prompt may name another page, a sheet, and the path that a third    *)
(* page without a name gets.                                               *)
EXTENDS Artifacts

Page == Path("", "index.html", <<>>)
SubPage == Path("docs", "index.html", <<>>)
About == Path("", "about.html", <<>>)
Sheet == Path("", "site.css", <<>>)

MCInfoPaths == {Page, SubPage}
MCPromptPaths == {About, Sheet, Path("", "index.html", <<3>>)}
MCLanguages == {"html", "css"}
MCDefaultName == [language \in MCLanguages |->
                    IF language = "html" THEN "index.html" ELSE "styles.css"]
MCHtmlNames == {"index.html", "about.html"}

=============================================================================

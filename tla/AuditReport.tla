----------------------------- MODULE AuditReport -----------------------------
(***************************************************************************)
(* The PDF of an audit, laid out in the browser                            *)
(* (src/components/dashboard/audit-report.ts): the findings and the pages  *)
(* one under the other, and a new page when what comes next would reach    *)
(* the footer.  A text is its number of lines; lengths are in points.      *)
(***************************************************************************)
EXTENDS Naturals, Sequences, SequencesExt, FiniteSets

CONSTANTS
  Intros,        \* lines of the sentence under the title
  Findings,      \* lists of findings: lines of title, url, description, recommendation
  PageLists      \* lists of pages: lines of url, status, title

\* y and every length are whole, so that 771.89 is reached when 771 is passed
Margin == 48
Body == 72                  \* the first line under a page's head
Bottom == 771               \* PAGE_HEIGHT - MARGIN - 22
CardHeight == 72

LayoutOK == Body < Bottom

VARIABLES
  audit,      \* intro, findings, pages
  pen,        \* page, y, and what is printed: [of, page, y, height]
  at,         \* the next finding or page
  stage

layoutVars == <<audit, pen, at, stage>>

LayoutInit ==
  /\ audit \in [intro : Intros, findings : Findings, pages : PageLists]
  /\ pen = [page |-> 1, y |-> Margin, printed |-> <<>>]
  /\ at = 1 /\ stage = "head"

Fixed == <<"front", 0>>
Down(p, d) == [p EXCEPT !.y = @ + d]
NextPage(p) == [p EXCEPT !.page = @ + 1, !.y = Body]
EnsureSpace(p, height) == IF p.y + height > Bottom THEN NextPage(p) ELSE p
Put(p, of, height, step) ==
  Down([p EXCEPT !.printed = Append(@, [of |-> of, page |-> p.page, y |-> p.y, height |-> height])], step)

Height(lines, lineHeight) == lines * lineHeight + 3
WriteWrapped(p, of, lines, lineHeight) ==
  LET h == Height(lines, lineHeight) IN Put(EnsureSpace(p, h), of, h, h)
Heading(p, of) == Put(EnsureSpace(p, 28), of, 28, 26)
Label(p, of) == Put(EnsureSpace(p, 16), of, 16, 14)

\* the label, the title, the sentence, and the cards
Top ==
  /\ stage = "head"
  /\ LET title == Down(Label(pen, Fixed), 26)
         intro == Down(WriteWrapped(title, Fixed, audit.intro, 14), 14)
         cards == EnsureSpace(intro, CardHeight + 18) IN
     pen' = Heading(Put(cards, Fixed, CardHeight, CardHeight + 24), Fixed)
  /\ stage' = "findings" /\ UNCHANGED <<audit, at>>

\* a bug for the run to find: the severity's label is not counted
UnlabelledHeight(f) ==
  Height(f.title, 16) + Height(f.url, 13) + Height(f.text, 14) + Height(f.fix, 14) + 9
IssueHeight(f) ==
  14 + Height(f.title, 16) + Height(f.url, 13) + Height(f.text, 14) + Height(f.fix, 14) + 9
PageHeight(g) == Height(g.url, 14) + Height(g.status, 13) + Height(g.title, 13) + 7

Gap(p) == IF at > 1 THEN Down(p, 7) ELSE p

Finding ==
  /\ stage = "findings" /\ at <= Len(audit.findings)
  /\ LET f == audit.findings[at]
         of == <<"finding", at>>
         label == Label(EnsureSpace(Gap(pen), IssueHeight(f)), of)
         url == WriteWrapped(WriteWrapped(label, of, f.title, 16), of, f.url, 13)
         fix == WriteWrapped(WriteWrapped(url, of, f.text, 14), of, f.fix, 14) IN
     pen' = Down(fix, 9)
  /\ at' = at + 1 /\ UNCHANGED <<audit, stage>>

\* without a finding, a line that says so; then the heading of the pages
NoMoreFindings ==
  /\ stage = "findings" /\ at > Len(audit.findings)
  /\ LET none == IF audit.findings = <<>> THEN WriteWrapped(pen, Fixed, 1, 14) ELSE pen IN
     pen' = Heading(none, Fixed)
  /\ at' = 1 /\ stage' = "pages" /\ UNCHANGED audit

Page ==
  /\ stage = "pages" /\ at <= Len(audit.pages)
  /\ LET g == audit.pages[at]
         of == <<"page", at>>
         url == WriteWrapped(EnsureSpace(Gap(pen), PageHeight(g)), of, g.url, 14)
         title == WriteWrapped(WriteWrapped(url, of, g.status, 13), of, g.title, 13) IN
     pen' = Down(title, 7)
  /\ at' = at + 1 /\ UNCHANGED <<audit, stage>>

\* the footer of every page, whose number is only known now
Footers ==
  /\ stage = "pages" /\ at > Len(audit.pages)
  /\ pen' = IF audit.pages = <<>> THEN WriteWrapped(pen, Fixed, 1, 14) ELSE pen
  /\ stage' = "done" /\ UNCHANGED <<audit, at>>

LayoutNext == Top \/ Finding \/ NoMoreFindings \/ Page \/ Footers
LayoutSpec == LayoutInit /\ [][LayoutNext]_layoutVars
----------------------------------------------------------------------------
PartsOf(of) == SelectSeq(pen.printed, LAMBDA b : b.of = of)

\* Nothing runs into the footer but a text that is longer than a page; nothing is printed
\* over what is above it; the parts of a finding that fits a page are on one page; every
\* finding and every page of the audit is in the finished report.
LaidOut ==
  /\ \A i \in DOMAIN pen.printed : LET b == pen.printed[i] IN
       /\ b.height <= Bottom - Body => b.y + b.height <= Bottom
       /\ i > 1 => LET a == pen.printed[i - 1] IN
            a.page < b.page \/ (a.page = b.page /\ a.y < b.y)
  /\ \A i \in DOMAIN audit.findings :
       IssueHeight(audit.findings[i]) <= Bottom - Body =>
         \A a, b \in ToSet(PartsOf(<<"finding", i>>)) : a.page = b.page
  /\ stage = "done" =>
       /\ \A i \in DOMAIN audit.findings : Len(PartsOf(<<"finding", i>>)) = 5
       /\ \A i \in DOMAIN audit.pages : Len(PartsOf(<<"page", i>>)) = 3
============================================================================

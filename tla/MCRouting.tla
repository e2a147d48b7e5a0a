------------------------------ MODULE MCRouting ------------------------------
(***************************************************************************)
(* Caps, rosters and requests for TLC.                                     *)
(***************************************************************************)
EXTENDS Routing

Exact(v)       == Con("exact", v)
PresentNot(v)  == Con("presentNot", v)
OptionalNot(v) == Con("optionalNot", v)

Media(tags) == Urn("media", tags)
CapTags(tags) == Urn("cap", tags)

Pdf  == Media(<<TagOf(1, Exact("a"))>>)
Scan == Media(<<TagOf(1, Exact("a")), TagOf(2, Present)>>)
Text == Media(<<TagOf(1, Exact("b"))>>)
Page == Media(<<TagOf(1, Exact("b")), TagOf(3, Exact("c"))>>)

Extract == CapTags(<<TagOf(1, Exact("a"))>>)
Fast    == CapTags(<<TagOf(1, Exact("a")), TagOf(2, Exact("b"))>>)

Identity   == Cap(MediaTop, MediaTop, CapTags(<<>>), "none")
ExtractPdf == Cap(Pdf, Text, Extract, "declared")
ExtractAny == Cap(MediaTop, Text, Extract, "declared")
FastPdf    == Cap(Pdf, Text, Fast, "declared")
PageText   == Cap(Text, Page, Extract, "patch")
ScanPdf    == Cap(Scan, Page, CapTags(<<TagOf(1, Exact("a")), TagOf(3, Present)>>), "declared")

SomeRosters ==
  { <<>>,
    <<Entry(Identity, "x"), Entry(ExtractPdf, "x")>>,
    <<Entry(FastPdf, "x"), Entry(ExtractPdf, "y")>>,
    <<Entry(ExtractAny, "x"), Entry(PageText, "y")>>,
    <<Entry(ScanPdf, "x"), Entry(ExtractPdf, "y"), Entry(ExtractAny, "x")>> }

SomeRequests ==
  { Identity,
    ExtractPdf,
    Cap(Scan, Text, Extract, "declared"),
    Cap(Text, Text, Extract, "declared"),
    Cap(Scan, Page, CapTags(<<TagOf(1, Exact("a")), TagOf(2, Present), TagOf(3, Present)>>), "declared"),
    Cap(MediaTop, Text, CapTags(<<TagOf(1, Present), TagOf(2, Absent)>>), "declared"),
    Cap(Pdf, MediaTop, CapTags(<<TagOf(1, PresentNot("b")), TagOf(2, OptionalNot("b"))>>), "unspecified"),
    Cap(Scan, Media(<<TagOf(1, OptionalNot("a")), TagOf(3, PresentNot("d"))>>),
        CapTags(<<TagOf(3, Unconstrained)>>), "unspecified"),
    Cap(Scan, Page, CapTags(<<TagOf(1, Exact("a")), TagOf(2, OptionalNot("c")), TagOf(3, Present)>>), "declared") }

SomePreferences == {ExtractPdf, ExtractAny}
=============================================================================

------------------------------- MODULE MCStudio -------------------------------
(* The values of the constants of the studio for model checking.           *)
EXTENDS Studio

\* Transcript commands: two lines next to each other, one assigned and in
\* review, one locked; cuts at a word border and at the end of a line.
MCLine(id, from, speaker, locks, state) ==
    [id |-> id, source |-> <<from, from + 2>>, edit |-> <<from, from + 2>>,
     words |-> {<<from, from + 1>>}, text |-> "a", speaker |-> speaker, character |-> None,
     emotion |-> None, confidence |-> 1, status |-> state, locks |-> locks]
MCInitialLines == << MCLine("u1", 0, "s", {}, "review"),
                     MCLine("u2", 2, None, {"speaker"}, "locked") >>
MCLockSets == {{"source_text"}, {"source_timing", "edit_timing"}, {"speaker"}}
Silent == [text |-> None, source |-> None, words |-> None, edit |-> None, confidence |-> None]
MCProposals ==
    { [Silent EXCEPT !.text = "b"],
      [Silent EXCEPT !.source = <<0, 3>>, !.edit = <<0, 3>>],
      [Silent EXCEPT !.words = {}, !.confidence = 0] }

\* Voice rights: a cloned voice that needs a consent, stock voices, and a
\* consent that ends at time 1, begins then elsewhere, is pending, or belongs
\* to another project.
MCProfile(id, origin, areas, consent) ==
    [id |-> id, project |-> "p", origin |-> origin, status |-> "active",
     areas |-> areas, consent |-> consent]
MCProfileOffers ==
    { MCProfile("v", "cloned", {"*"}, "c"),
      MCProfile("w", "synthetic_stock", {"fr"}, None),
      MCProfile("v", "synthetic_stock", {"*"}, None) }
MCConsent(project, state, areas, from, until) ==
    [id |-> "c", project |-> project, status |-> state, uses |-> {"dubbing"},
     areas |-> areas, from |-> from, until |-> until]
MCConsentOffers ==
    {MCConsent("p", "granted", {"fr"}, 0, 1), MCConsent(None, "granted", {"de"}, 1, None),
     MCConsent("p", "pending", {"fr"}, 0, None), MCConsent("q", "granted", {"fr"}, 0, None)}
MCRequests == [project: {"p"}, area: {"fr", "de"}, use: {"dubbing"}]

\* Timing: lengths at, just inside and just outside each threshold of a slot.
MCLengths == {0, 40, 111, 112, 500, 900, 1000, 1100, 1300, 2400, 2500, 2600, 2700, 2900, 3000}

\* VRAM: no three of the models fit together.
MCModels == {"a", "b", "c", "d"}
MCSize == [m \in MCModels |-> CASE m = "a" -> 2 [] m = "c" -> 4 [] OTHER -> 3]
MCPriority == [m \in MCModels |-> CASE m = "c" -> 3 [] m = "d" -> 2 [] OTHER -> 1]

\* Invalidation: artifacts of a character's voice, and shots made from them.
VoiceOfC == <<"voice", "c">>
MCKinds == {VoiceOfC, <<"lipsync", "s">>}
MCRootKinds == {VoiceOfC}

\* Speech: chunks without an overlap, with one, and with one of half a chunk.
MCPolicies == { [max |-> 5, min |-> 4, overlap |-> 0],
                [max |-> 4, min |-> 3, overlap |-> 2],
                [max |-> 3, min |-> 2, overlap |-> 1] }

\* Migrations: a program, a newer one, and one of another line.
MCMigrations == [old |-> <<"m1", "m2">>, new |-> <<"m1", "m2", "m3">>,
                 fork |-> <<"m1", "f2", "f3">>]

\* The LLM providers, in the order of their registration; one fails often
\* enough to open its circuit, and to do so again from half-open.
MCAdapters == <<"a", "b">>
MCFailures == [k \in {"a", "b"} |-> IF k = "a" THEN 3 ELSE 1]

\* Analysis: a stage after another, two stages that need nothing, and a plan
\* that is refused.
MCStage(needed, weight, total) == [needs |-> needed, weight |-> weight, total |-> total]
MCAnalysisPlans ==
    { <<MCStage({}, 1, 2), MCStage({1}, 3, 1)>>,
      <<MCStage({}, 3, 1), MCStage({}, 1, 1)>>,
      <<MCStage({2}, 1, 1), MCStage({}, 1, 1)>> }

\* Subtitles: short cues, long ones that run over several, and an empty one.
MCBlock(from, to) == [start |-> from, end |-> to]
MCBlocks ==
    { MCBlock(0, 1), MCBlock(0, 5), MCBlock(1, 2), MCBlock(2, 3),
      MCBlock(3, 6), MCBlock(3, 3) }
MCClocks == {<<1, 2>>, <<2, 3>>, <<3, 1>>}

\* Render plans: three nodes in any order, on one another or one elsewhere.
MCRenderPlans ==
    {needed \in [1..3 -> SUBSET {1, 2, 3, 9}] :
        \A n \in 1..3 : n \notin needed[n] /\ Cardinality(needed[n]) <= 2}

\* Exact time: rates of which some have no tick in common but whole seconds.
MCRates == {<<2, 1>>, <<3, 1>>, <<3, 2>>, <<6, 1>>}

\* Clips: next to each other and apart.
MCClip(from, to) == [start |-> from, duration |-> to - from]
MCTracks ==
    { <<MCClip(1, 4), MCClip(4, 6), MCClip(8, 10)>>,
      <<MCClip(0, 3), MCClip(5, 7)>> }
MCShifts == {-2, -1, 1, 3}
=============================================================================

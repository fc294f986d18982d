---------------------------- MODULE MCBuildLoop ----------------------------
EXTENDS BuildLoop, TLC
MCSymmetry == Permutations(Handlers)
Entry(a, f, image) == [app |-> a, byName |-> FALSE, filters |-> f, image |-> image,
                       installed |-> TRUE, valid |-> TRUE]
\* Applications with an image build each, of which a push affects two.
MCMonorepo ==
    [apps |-> <<"alleyes", "finops", "portal">>,
     dir |-> [alleyes |-> <<"alleyes">>, finops |-> <<"finops">>, portal |-> <<"portal">>],
     healthChecked |-> {"alleyes", "finops", "portal"},
     withCompose |-> {"alleyes", "finops", "portal"},
     githubApp |-> TRUE, repoNamed |-> TRUE,
     accounts |-> << <<Entry("finops", {<<"finops", "**">>, <<"packages", "shared", "">>}, TRUE),
                       Entry("portal", {<<"", "portal", "*">>}, TRUE),
                       Entry("alleyes", {<<"packages", "ui">>}, TRUE)>> >>,
     changed |-> <<{<<"packages", "shared", "a">>, <<"", "portal", "b">>}>>,
     maxDeliveries |-> 2, maxBuilds |-> 2, maxFaults |-> 0, maxRestarts |-> 1]
\* One entry for the whole repository: operators build it for every application.
MCWhole ==
    [apps |-> <<"api", "web">>,
     dir |-> [api |-> <<"api">>, web |-> <<>>],
     healthChecked |-> {"api", "web"}, withCompose |-> {"api", "web"},
     githubApp |-> TRUE, repoNamed |-> TRUE,
     accounts |-> << <<Entry(NoApp, {}, TRUE)>> >>,
     changed |-> <<{<<"api", "x">>}>>,
     maxDeliveries |-> 2, maxBuilds |-> 2, maxFaults |-> 1, maxRestarts |-> 0]
\* One entry that gives its application by name: an operator's build of it is of
\* no application.
MCByName ==
    [MCWhole EXCEPT !.accounts = << <<[Entry("api", {<<"api", "**">>}, TRUE) EXCEPT !.byName = TRUE]>> >>,
                    !.maxFaults = 0]
\* No image builds, and applications the loop must skip.
MCSources ==
    [apps |-> <<"a", "b", "c">>,
     dir |-> [a |-> <<>>, b |-> <<"b">>, c |-> <<>>],
     healthChecked |-> {"a", "b"}, withCompose |-> {"a", "b"},
     githubApp |-> TRUE, repoNamed |-> TRUE,
     accounts |-> << <<[Entry("c", {}, TRUE) EXCEPT !.installed = FALSE],
                       Entry(NoApp, {}, FALSE)>> >>,
     changed |-> <<{<<"b", "x">>}, {<<"q">>}>>,
     maxDeliveries |-> 2, maxBuilds |-> 0, maxFaults |-> 1, maxRestarts |-> 1]
\* No GitHub App: every application is deployed from source.
MCNoGitHubApp == [MCSources EXCEPT !.githubApp = FALSE, !.maxRestarts = 0]
MCConfigurations == {MCMonorepo, MCWhole, MCByName, MCSources, MCNoGitHubApp}
=============================================================================

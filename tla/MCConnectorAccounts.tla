------------------------ MODULE MCConnectorAccounts ------------------------
EXTENDS ConnectorAccounts
T(repo, app) == [repo |-> repo, app |-> app, filled |-> FALSE]
\* A monorepo with two targets, a repository with one, and no repository.
MCConfigs == { <<>>, <<T("a", "x"), T("a", "y"), T("b", NoTarget)>>, <<T("b", "x")>> }
MCSymmetry == Permutations(Requests)
I(c, s, f) == [cred |-> c, status |-> s, facts |-> f]
\* A batch that meets a credential sync in another order, one of the SSH key of a
\* server that names it twice, and one with a status that does not exist.
MCBatches ==
    { <<I("b", "unknown", {"f"}), I("a", "revoked", {"access"})>>,
      <<I("key", "unknown", {}), I("key", "rotating", {"access"})>>,
      <<I("b", "other", {})>> }
=============================================================================

CONSTANTS
  seller = seller
  buyer1 = buyer1
  buyer2 = buyer2
  tee = tee
  Jurors = {j1, j2, j3}
  JurorStake0 = 4
  NoAccount = NoAccount
  Accounts <- MCAccounts
  Sellers = {seller}
  Buyers = {buyer1}
  JurorPool = {j1, j2, j3}
  Signers = {tee}
  RoleChanges = {}
  ActiveChoices = {TRUE, FALSE}
  ApprovalPool = {}
  ParamChoices <- ManagedParams
  InitParams <- P1
  TermChoices <- MCTerms
  PreviewFees = {1}
  FeeRecipients = {}
  MinPreviewFees = {1}
  PreviewTimeouts = {}
  Withdrawers = {}
  Amounts = {4}
  OwnerAmounts = {}
  Grounds = {"BrokenOrHashMismatch", "FalseDescription"}
  StarChoices = {5}
  MAX_JURORS = 200
  BLOCKHASH_WINDOW = 256
  BlockTime = 1
  MaxVersions = 2
  MaxPurchases = 1
  MaxStake = 10
  MaxBlock = 40
  ManagedJuror = j1
  WatchedPurchase = 1
  WatchedVersion = 1
  WatchedJurors = {}
SPECIFICATION LiveSpec
INVARIANTS PagesMatchMarket
PROPERTIES ImplementsTeeChain EveryPurchaseCloses PagesKeepPromises
CHECK_DEADLOCK FALSE

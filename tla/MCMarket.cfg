CONSTANTS
  seller = seller
  buyer1 = buyer1
  buyer2 = buyer2
  tee = tee
  Jurors = {}
  JurorStake0 = 4
  NoAccount = NoAccount
  Accounts <- MCAccounts
  Sellers = {seller}
  Buyers = {buyer1, buyer2}
  JurorPool = {}
  Signers = {tee}
  RoleChanges = {tee}
  ActiveChoices = {TRUE, FALSE}
  ApprovalPool = {}
  ParamChoices <- MCParams
  InitParams <- P1
  TermChoices <- MCTerms
  PreviewFees = {1, 2}
  FeeRecipients = {seller}
  MinPreviewFees = {2}
  PreviewTimeouts = {1}
  Withdrawers = {seller, buyer1, buyer2}
  Amounts = {5}
  OwnerAmounts = {2}
  Grounds = {"BrokenOrHashMismatch"}
  StarChoices = {5}
  MAX_JURORS = 200
  BLOCKHASH_WINDOW = 256
  BlockTime = 1
  MaxVersions = 2
  MaxPurchases = 2
  MaxStake = 12
  MaxBlock = 4
  WatchedPurchase = 1
  WatchedVersion = 2
  WatchedJurors = {}
SPECIFICATION MarketSpec
INVARIANTS TypeOK Solvent BucketsAccounted NoUnderflow CollateralCoversCharge ReputationConsistent HoldsAccounted DisputesMatchPurchases ConcentrationMatches
PROPERTIES ImplementsLifecycle ImplementsPreviewChain PreviewFeeNeverDrops
CHECK_DEADLOCK FALSE

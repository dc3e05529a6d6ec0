\* Two hosts, two configurations, two Secret keys; one failure, one change in
\* the environment, one change of what users own beside the deletion.
SPECIFICATION FairSpec
CONSTANTS
    h1 = h1
    h2 = h2
    a = a
    b = b
    k1 = k1
    k2 = k2
    t1 = t1
    t2 = t2
    other = other
    url = url
    spare = spare
    plain = plain
    tagged = tagged
    Configs = {default, other}
    Default = default
    SecretKeys = {credentials, spare}
    DefaultKey = credentials
    Accounts = {account}
    EnvURLs = {url}
    Pairs = {k1, k2}
    Tokens = {t1, t2}
    Empty = Empty
    Gone = Gone
    Missing = Missing
    Malformed = Malformed
    NoClient = NoClient
    Ids = {h1, h2}
    Types <- MCTypes
    Letters = {a, b}
    Tags = {plain, tagged}
    Star = Star
    NoEntity = NoEntity
    InitialSpecs <- MCSpecs
    EditableTo <- MCEdits
    Inventories <- MCInventories
    InitialConfigs <- MCDefaultOnly
    ConfigChoices <- MCConfigs
    SecretChoices <- MCSecrets
    MaxFaults = 1
    MaxMoves = 1
    MaxEdits = 1
INVARIANT TypeOK
PROPERTIES NeverAnother StatusTold Teardown
CHECK_DEADLOCK FALSE

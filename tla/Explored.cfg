SPECIFICATION Spec
CONSTANTS
    dashboard = dashboard
    detail = detail
    region = region
    product = product
    all = all
    eu = eu
    wide = wide
    stale = stale
    many = many
    row = row
    zoomed = zoomed
    plain = plain
    chart = chart
    gone = gone
    TabOrder <- TabOrderDef
    Dashboard = dashboard
    Filter = {region, product}
    Offered <- OfferedDef
    Standard <- StandardDef
    TabDefault <- TabDefaultDef
    Scope <- ScopeDef
    Private = {product}
    Focus = {row}
    FocusOf <- FocusOfDef
    Cuts = {plain, zoomed}
    NoCuts = plain
    Huge = {}
    Large = {}
    Component = {chart, gone}
    Home <- HomeDef
    Links <- BareDef
    Readers <- FreshDef
    Payloads <- PayloadsDef
    None = None
    MaxActs = 2
    MaxEntries = 3
INVARIANTS
    BrowsingIsRestored
CHECK_DEADLOCK FALSE

SPECIFICATION Spec
CONSTANTS
    repo = repo
    Latest = Latest
    stable = stable
    dig = dig
    None = None
    Handlers = {h1, h2}
    Repos = {repo}
    Tags = {Latest, stable}
    Digests = {dig}
    Refs <- Tagged
    Configs <- OnOff
    FirstConfig <- On
    FirstImages <- MCImages
    MaxCerts = 2
SYMMETRY Interchangeable
INVARIANTS TypeOK RunsWhatWasAsked TempsAccountedFor CacheKeepsName
PROPERTIES RefusedOnlyIfMissing
CHECK_DEADLOCK FALSE
